---- MODULE Spec2Model ----
(***************************************************************************)
(* Record store and status-integrity engine of colrev (colrev/dataset.py). *)
(*                                                                         *)
(* The store (records file) is modelled at the level the validator reads   *)
(* it: one entry per record with the three header values the line scans of *)
(* retrieve_prior and retrieve_status_data extract (ID, colrev_status,     *)
(* colrev_origin).  A missing field reads as the sentinel "NA"; the origin *)
(* value is kept as the sequence origin.split(";") yields, so a missing    *)
(* origin is <<"NA">>.                                                     *)
(***************************************************************************)
EXTENDS Integers, Sequences, FiniteSets, TLC

VARIABLES
    prior_file,     \* content of the records file at the last commit
    records_file,   \* content of the records file in the working copy
    worktree,       \* downstream files of the working tree (walk order)
    edits,          \* number of edits applied to the working copy
    pc,             \* "edit" | "checked"
    prior,          \* result of the last retrieve_prior
    status_data,    \* result of the last retrieve_status_data
    outcome,        \* what each check of the last validation raised
    disk,           \* text of the records file on disk, one character per byte
    records,        \* the records dict last saved with save_records_dict
    call,           \* the running call of the patch writer and its position
    before,         \* text of the records file when the call was entered
    entered,        \* the call as it was entered
    calls,          \* number of calls of the patch writer so far
    is_file,        \* records_file.is_file()
    history,        \* texts of the records file in the commits that touch
                    \* it, newest first (iter_commits(paths=records file))
    index,          \* the records file in the git index
    index_lock,     \* .git/index.lock exists
    staging,        \* the running add_changes / add_record_changes call
    answer,         \* what the last query of the store or its history gave
    prep_args,      \* arguments of Prep.main
    main,           \* position of Prep.main and its locals
    workers,        \* the prepare calls of the round, one per item
    temp_prep_lock, \* the lock is held
    current_temp_records,  \* records appended to .colrev/cur_temp_recs.bib
    temp_records,   \* records of .colrev/temp_recs.bib
    saves,          \* the calls of save_records_dict by the operation so far
    bib_database,   \* entries of the references file of dedupe_entries
    current_batch_counter,  \* the shared counter and the holder of its lock
    pool,           \* the append_merges calls of the batch, one per entry
    csv_files,      \* queue_order.csv, non_duplicates.csv and the tuple files
    dedupe,         \* position of dedupe_entries and its locals
    set_ids_call,   \* the running call of set_ids and its locals
    feed_file,      \* records of the feed file on disk
    feed,           \* the SearchAPIFeed object and the main records it holds
    feed_call,      \* the last call of add_update_record: arguments, result
    local_index_lock,  \* holder of the lock of the local-index source
    retrievals      \* the calls of _store_retrieved_record_in_feed

validation_vars ==
    <<prior_file, records_file, worktree, edits, pc, prior, status_data, outcome>>

store_vars == <<disk, records, call, before, entered, calls>>

repo_vars == <<is_file, history, index, index_lock, staging, answer>>

prep_vars ==
    <<prep_args, main, workers, temp_prep_lock, current_temp_records,
      temp_records, saves>>

dedupe_vars == <<bib_database, current_batch_counter, pool, csv_files, dedupe>>

feed_vars == <<feed_file, feed, feed_call>>

local_index_vars == <<local_index_lock, retrievals>>

ops_vars == <<dedupe_vars, set_ids_call, feed_vars, local_index_vars>>

vars == <<validation_vars, store_vars, repo_vars, prep_vars, ops_vars>>

\* ------------------------------------------------------------------ bounds
MaxRecords == 2
MaxEdits == 2

\* ----------------------------------------------------------------- helpers
Range(s) == {s[i] : i \in DOMAIN s}

Count(x, s) == Cardinality({i \in DOMAIN s : s[i] = x})

Min(S) == CHOOSE m \in S : \A n \in S : m <= n

RECURSIVE Chain(_)
\* itertools.chain(*pairs): the elements of every pair, in order
Chain(pairs) ==
    IF pairs = <<>> THEN <<>> ELSE Head(pairs) \o Chain(Tail(pairs))

\* ------------------------------------------------- record states and table
\* colrev.record.RecordState, in lifecycle order
RecordState ==
    << "md_retrieved", "md_imported", "md_needs_manual_preparation",
       "md_prepared", "md_processed",
       "rev_prescreen_excluded", "rev_prescreen_included",
       "pdf_needs_manual_retrieval", "pdf_imported", "pdf_not_available",
       "pdf_needs_manual_preparation", "pdf_prepared",
       "rev_excluded", "rev_included", "rev_synthesized" >>

States == Range(RecordState)

Edge(t, s, d) == [trigger |-> t, source |-> s, dest |-> d]

\* colrev.process.ProcessModel.transitions: the fixed edge list
transitions ==
    << Edge("load", "md_retrieved", "md_imported"),
       Edge("prep", "md_imported", "md_needs_manual_preparation"),
       Edge("prep", "md_imported", "md_prepared"),
       Edge("prep_man", "md_needs_manual_preparation", "md_prepared"),
       Edge("dedupe", "md_prepared", "md_processed"),
       Edge("prescreen", "md_processed", "rev_prescreen_excluded"),
       Edge("prescreen", "md_processed", "rev_prescreen_included"),
       Edge("pdf_get", "rev_prescreen_included", "pdf_imported"),
       Edge("pdf_get", "rev_prescreen_included", "pdf_needs_manual_retrieval"),
       Edge("pdf_get_man", "pdf_needs_manual_retrieval", "pdf_not_available"),
       Edge("pdf_get_man", "pdf_needs_manual_retrieval", "pdf_imported"),
       Edge("pdf_prep", "pdf_imported", "pdf_needs_manual_preparation"),
       Edge("pdf_prep", "pdf_imported", "pdf_prepared"),
       Edge("pdf_prep_man", "pdf_needs_manual_preparation", "pdf_prepared"),
       Edge("screen", "pdf_prepared", "rev_excluded"),
       Edge("screen", "pdf_prepared", "rev_included"),
       Edge("data", "rev_included", "rev_synthesized") >>

\* RecordState.get_post_x_states(state=...): the state and every later one
get_post_x_states(state) ==
    LET at == CHOOSE i \in DOMAIN RecordState : RecordState[i] = state
    IN  {RecordState[i] : i \in at..Len(RecordState)}

\* --------------------------------------------------------------- fixtures
\* the search directory: source files with the ids of their entries
search_dir ==
    << [name |-> "s.bib", suffix |-> ".bib",
        ids |-> [i \in 1..MaxRecords |-> ToString(i)]],
       [name |-> "t.csv", suffix |-> ".csv", ids |-> <<"1">>] >>

\* the origin token of entry search_id of a source file
Link(name, search_id) == name \o "/" \o search_id

Entry(id, status, origin) ==
    [ID |-> id, colrev_status |-> status, colrev_origin |-> origin]

\* what a call raised: the exception class, which of its messages, the details
Raise(exc, kind, msg) == [exc |-> exc, kind |-> kind, msg |-> msg]

NoError == Raise("none", "none", <<>>)

NotRun == Raise("not_run", "none", <<>>)

\* ------------------------------------------------------ status transitions
\* f"{record_id}: {prior_status[0]} to {status}"
InvalidMsg(record_id, prior_status, status) ==
    record_id \o ": " \o prior_status \o " to " \o status

\* mutant: every status of the prior revision, whatever the origin
PriorStatusList_NoFilter(origin, pr) ==
    IF "colrev_status" \in DOMAIN pr
    THEN [k \in DOMAIN pr.colrev_status |-> pr.colrev_status[k][2]]
    ELSE <<>>

\* mutant: the matching statuses, the last match first
PriorStatusList_LastFirst(origin, pr) ==
    LET matching == IF "colrev_status" \in DOMAIN pr
                    THEN SelectSeq(pr.colrev_status,
                                   LAMBDA p : p[1] \in Range(origin))
                    ELSE <<>>
    IN  [k \in DOMAIN matching |-> matching[Len(matching) + 1 - k][2]]

\* the statuses the prior revision holds for the origin tokens of a record,
\* in the order of the prior revision
PriorStatusList(origin, pr) ==
    LET matching == IF "colrev_status" \in DOMAIN pr
                    THEN SelectSeq(pr.colrev_status,
                                   LAMBDA p : p[1] \in Range(origin))
                    ELSE <<>>
    IN  [k \in DOMAIN matching |-> matching[k][2]]

\* mutant: the edges into the new status, whatever their source
ProcTransitionList_DestOnly(prior_status0, status) ==
    SelectSeq(transitions, LAMBDA x : x.dest = status)

\* the edges of the table from the prior status to the new one
ProcTransitionList(prior_status0, status) ==
    SelectSeq(transitions,
              LAMBDA x : x.source = prior_status0 /\ x.dest = status)

\* mutant: no edge, also when the status did not change
InvalidTransition_NoSelfCheck(proc_transition_list, prior_status0, status) ==
    Len(proc_transition_list) = 0

\* no edge, and the status changed
InvalidTransition(proc_transition_list, prior_status0, status) ==
    Len(proc_transition_list) = 0 /\ prior_status0 # status

\* Dataset.__get_status_transitions: the transition of one record.  Returns
\* the status_transition dict (as <<record_id, value>>), status_data with
\* what the call appended, and the exception it raised, if any.
GetStatusTransitions(record_id, origin, pr, status, sd) ==
    LET prior_status == PriorStatusList(origin, pr)
    IN  IF Len(prior_status) = 0
        THEN [status_transition |-> <<record_id, "load">>,
              status_data |-> sd, raised |-> NoError]
        ELSE
        LET proc_transition_list == ProcTransitionList(prior_status[1], status)
            invalid == InvalidTransition(proc_transition_list, prior_status[1], status)
            sd1 == IF invalid
                   THEN [sd EXCEPT !.start_states = Append(@, prior_status[1])]
                   ELSE sd
            raised ==
                IF invalid /\ prior_status[1] \notin States
                THEN Raise("StatusFieldValueError", "prior",
                           <<record_id, "colrev_status", prior_status[1]>>)
                ELSE IF invalid /\ status \notin States
                THEN Raise("StatusFieldValueError", "new",
                           <<record_id, "colrev_status", status>>)
                ELSE NoError
            sd2 == IF invalid /\ raised.exc = "none"
                   THEN [sd1 EXCEPT !.invalid_state_transitions =
                            Append(@, InvalidMsg(record_id, prior_status[1], status))]
                   ELSE sd1
            value == IF Len(proc_transition_list) = 0
                     THEN "load"
                     ELSE proc_transition_list[Len(proc_transition_list)].trigger
        IN  [status_transition |-> <<record_id, value>>,
             status_data |-> sd2, raised |-> raised]

\* status_data as retrieve_status_data initialises it
EmptyStatusData ==
    [ status_fields |-> <<>>, status_transitions |-> <<>>,
      start_states |-> <<>>, IDs |-> <<>>, entries_without_origin |-> <<>>,
      record_links_in_bib |-> <<>>, persisted_IDs |-> <<>>,
      origin_list |-> <<>>, invalid_state_transitions |-> <<>> ]

\* one iteration of the loop of retrieve_status_data over the record strings
StatusDataStep(rec, pr, sd) ==
    LET record_id == rec.ID
        status == rec.colrev_status
        origin == rec.colrev_origin
        parts == DOMAIN origin
        sd1 == [sd EXCEPT
                  !.IDs = Append(@, record_id),
                  !.origin_list =
                      @ \o [k \in parts |-> <<record_id, origin[k]>>],
                  !.persisted_IDs =
                      IF status \in get_post_x_states("md_processed")
                      THEN @ \o [k \in parts |-> <<origin[k], record_id>>]
                      ELSE @,
                  !.record_links_in_bib =
                      IF origin # <<"NA">> THEN @ \o origin ELSE @,
                  !.entries_without_origin =
                      IF origin # <<"NA">> THEN @ ELSE Append(@, record_id),
                  !.status_fields = Append(@, status)]
        got == GetStatusTransitions(record_id, origin, pr, status, sd1)
    IN  [status_data |->
            [got.status_data EXCEPT
                !.status_transitions = Append(@, got.status_transition)],
         raised |-> got.raised]

RECURSIVE StatusDataLoop(_, _, _, _)
StatusDataLoop(file, i, pr, sd) ==
    IF i > Len(file)
    THEN [status_data |-> sd, raised |-> NoError]
    ELSE IF file[i].ID \in {"Comment", "NA"}
    THEN StatusDataLoop(file, i + 1, pr, sd)
    ELSE LET step == StatusDataStep(file[i], pr, sd)
         IN  IF step.raised.exc # "none"
             THEN [status_data |-> EmptyStatusData, raised |-> step.raised]
             ELSE StatusDataLoop(file, i + 1, pr, step.status_data)

\* Dataset.retrieve_status_data: status_data of the working copy, or the
\* exception that ended the scan (no status_data is returned then)
retrieve_status_data(pr, file) == StatusDataLoop(file, 1, pr, EmptyStatusData)

RECURSIVE PriorLoop(_, _, _)
PriorLoop(file, i, pr) ==
    IF i > Len(file)
    THEN pr
    ELSE LET rec == file[i]
             parts == DOMAIN rec.colrev_origin
         IN  IF rec.ID # "NA"
             THEN PriorLoop(file, i + 1,
                    [colrev_status |-> pr.colrev_status \o
                        [k \in parts |-> <<rec.colrev_origin[k], rec.colrev_status>>],
                     persisted_IDs |-> pr.persisted_IDs \o
                        IF rec.colrev_status = "md_processed"
                        THEN [k \in parts |-> <<rec.colrev_origin[k], rec.ID>>]
                        ELSE <<>>])
             ELSE PriorLoop(file, i + 1, pr)

\* Dataset.retrieve_prior: (origin, status) and persisted (origin, id) pairs
\* of the records file at the last commit
retrieve_prior(file) ==
    PriorLoop(file, 1, [colrev_status |-> <<>>, persisted_IDs |-> <<>>])

\* mutant: counts the start states without set()
check_status_transitions_CountList(sd) ==
    IF Len(sd.start_states) > 1
    THEN Raise("StatusTransitionError",
               "multiple transitions from different start states",
               Range(sd.start_states))
    ELSE IF Cardinality(Range(sd.invalid_state_transitions)) > 0
    THEN Raise("StatusTransitionError", "invalid state transitions",
               sd.invalid_state_transitions)
    ELSE NoError

\* Dataset.check_status_transitions
check_status_transitions(sd) ==
    IF Cardinality(Range(sd.start_states)) > 1
    THEN Raise("StatusTransitionError",
               "multiple transitions from different start states",
               Range(sd.start_states))
    ELSE IF Cardinality(Range(sd.invalid_state_transitions)) > 0
    THEN Raise("StatusTransitionError", "invalid state transitions",
               sd.invalid_state_transitions)
    ELSE NoError

\* ----------------------------------------------------- persisted identifiers
\* the notifications of one walk entry, in the order the walk appends them
WalkNotes(f, prior_id, new_id) ==
    LET in_path == "Old ID (" \o prior_id \o ", changed to " \o new_id
                   \o " in the RECORDS_FILE) found in filepath: " \o f.name
        in_bib  == "Old ID (" \o prior_id \o ", changed to " \o new_id
                   \o " in the RECORDS_FILE) found in file: " \o f.name
        in_text == "Old ID (" \o prior_id \o ", to " \o new_id
                   \o " in the RECORDS_FILE) found in file: " \o f.name
    IN  IF f.ignored THEN <<>>
        ELSE (IF prior_id \in f.path_ids THEN <<in_path>> ELSE <<>>)
             \o (IF f.kind = "file" /\ f.text = "bib" /\ prior_id \in f.line_ids
                 THEN <<in_bib>>
                 ELSE IF f.kind = "file" /\ f.text = "other" /\ prior_id \in f.line_ids
                 THEN <<in_text>>
                 ELSE <<>>)

RECURSIVE Walk(_, _, _, _)
Walk(entries, prior_id, new_id, notifications) ==
    IF entries = <<>>
    THEN notifications
    ELSE LET notes == WalkNotes(Head(entries), prior_id, new_id)
             fresh == SelectSeq(notes, LAMBDA m :
                        Head(entries).kind = "dir" \/ m \notin Range(notifications))
         IN  Walk(Tail(entries), prior_id, new_id, notifications \o fresh)

\* Dataset.check_propagated_ids: the files, then the directories of the tree
check_propagated_ids(prior_id, new_id, tree) ==
    Walk(SelectSeq(tree, LAMBDA f : f.kind = "file")
         \o SelectSeq(tree, LAMBDA f : f.kind = "dir"),
         prior_id, new_id, <<>>)

\* mutant: a changed id is raised only when the scan found a reference
PersistedVerdict_ScanGated(prior_origin, prior_id, sd, tree) ==
    LET changed == {j \in DOMAIN sd.persisted_IDs :
                       /\ sd.persisted_IDs[j][1] = prior_origin
                       /\ sd.persisted_IDs[j][2] # prior_id}
    IN  IF prior_origin \notin {x[1] : x \in Range(sd.persisted_IDs)}
        THEN Raise("OriginError", "origin removed", <<prior_origin>>)
        ELSE IF changed # {}
        THEN LET new_id == sd.persisted_IDs[Min(changed)][2]
                 notifications == check_propagated_ids(prior_id, new_id, tree)
             IN  IF notifications = <<>>
                 THEN NoError
                 ELSE Raise("PropagatedIDChange", "notifications",
                            Append(notifications,
                                   "ID of processed record changed from "
                                   \o prior_id \o " to " \o new_id))
        ELSE NoError

\* mutant: an origin counts as kept when any record of the store holds it
PersistedVerdict_AnyHolder(prior_origin, prior_id, sd, tree) ==
    LET changed == {j \in DOMAIN sd.persisted_IDs :
                       /\ sd.persisted_IDs[j][1] = prior_origin
                       /\ sd.persisted_IDs[j][2] # prior_id}
    IN  IF prior_origin \notin {x[2] : x \in Range(sd.origin_list)}
        THEN Raise("OriginError", "origin removed", <<prior_origin>>)
        ELSE IF changed # {}
        THEN LET new_id == sd.persisted_IDs[Min(changed)][2]
             IN  Raise("PropagatedIDChange", "notifications",
                       Append(check_propagated_ids(prior_id, new_id, tree),
                              "ID of processed record changed from "
                              \o prior_id \o " to " \o new_id))
        ELSE NoError

\* the body of the loop of check_persisted_id_changes for one persisted
\* (origin, id) pair of the prior revision: what it raises, if anything
PersistedVerdict(prior_origin, prior_id, sd, tree) ==
    LET changed == {j \in DOMAIN sd.persisted_IDs :
                       /\ sd.persisted_IDs[j][1] = prior_origin
                       /\ sd.persisted_IDs[j][2] # prior_id}
    IN  IF prior_origin \notin {x[1] : x \in Range(sd.persisted_IDs)}
        THEN Raise("OriginError", "origin removed", <<prior_origin>>)
        ELSE IF changed # {}
        THEN LET new_id == sd.persisted_IDs[Min(changed)][2]
             IN  Raise("PropagatedIDChange", "notifications",
                       Append(check_propagated_ids(prior_id, new_id, tree),
                              "ID of processed record changed from "
                              \o prior_id \o " to " \o new_id))
        ELSE NoError

RECURSIVE PersistedLoop(_, _, _, _)
PersistedLoop(pr, sd, tree, i) ==
    IF i > Len(pr.persisted_IDs)
    THEN NoError
    ELSE LET raised == PersistedVerdict(pr.persisted_IDs[i][1],
                                        pr.persisted_IDs[i][2], sd, tree)
         IN  IF raised.exc # "none"
             THEN raised
             ELSE PersistedLoop(pr, sd, tree, i + 1)

\* Dataset.check_persisted_id_changes
check_persisted_id_changes(pr, sd, tree) ==
    IF "persisted_IDs" \notin DOMAIN pr
    THEN NoError
    ELSE PersistedLoop(pr, sd, tree, 1)

\* ------------------------------------------------------------------ origins
\* Dataset.retrieve_ids_from_bib, over the *.bib files of the search directory
all_record_links ==
    UNION { {Link(search_dir[f].name, search_dir[f].ids[k]) :
                 k \in DOMAIN search_dir[f].ids} :
            f \in {g \in DOMAIN search_dir : search_dir[g].suffix = ".bib"} }

\* mutant: the broken-origin check runs before the missing-origin check
check_main_records_origin_BrokenFirst(sd) ==
    LET delta == Range(sd.record_links_in_bib) \ all_record_links
    IN  IF Cardinality(delta) > 0
        THEN Raise("OriginError", "broken origins", delta)
        ELSE IF Len(sd.entries_without_origin) # 0
        THEN Raise("OriginError", "Entries without origin", sd.entries_without_origin)
        ELSE NoError

\* Dataset.check_main_records_origin
check_main_records_origin(sd) ==
    IF Len(sd.entries_without_origin) # 0
    THEN Raise("OriginError", "Entries without origin", sd.entries_without_origin)
    ELSE
    LET delta == Range(sd.record_links_in_bib) \ all_record_links
        origins == Chain(sd.origin_list)
        non_unique_origins == {org \in Range(origins) : Count(org, origins) > 1}
        hits == {k \in DOMAIN sd.origin_list :
                    sd.origin_list[k][2] \in non_unique_origins}
    IN  IF Cardinality(delta) > 0
        THEN Raise("OriginError", "broken origins", delta)
        ELSE IF hits # {}
        THEN Raise("OriginError", "Non-unique origin",
                   <<sd.origin_list[Min(hits)][2]>>)
        ELSE NoError


\* ------------------------------------------------------------ state machine
\* a call that is not running
NoCall ==
    [fn |-> "none", pc |-> "idle", pos |-> 0, seekpos |-> 0, line |-> "",
     current_id_str |-> "NA", replacement |-> "", remaining |-> "",
     in_place |-> FALSE, wbuf |-> "", wpos |-> 0,
     ids |-> <<>>, key |-> "", val |-> "", new_id |-> "", delete |-> FALSE,
     record_list |-> <<>>, append_new |-> FALSE, log |-> <<>>]

\* no records file written yet and no call of the patch writer
NoStoreFile ==
    /\ disk = ""
    /\ records = <<>>
    /\ call = NoCall
    /\ before = ""
    /\ entered = NoCall
    /\ calls = 0

\* a records file that git does not track
Untracked == [tracked |-> FALSE, text |-> ""]

\* no call of add_changes, add_record_changes or add_setting_changes runs
NotStaging == [pc |-> "idle", path |-> "", polls |-> 0, marker |-> "none"]

NoAnswer == [fn |-> "none", value |-> <<>>, raised |-> "none"]

\* a repository without a commit of the records file, no git operation
\* running and no query made
NoRepo ==
    /\ is_file = FALSE
    /\ history = <<>>
    /\ index = Untracked
    /\ index_lock = FALSE
    /\ staging = NotStaging
    /\ answer = NoAnswer

NoArgs == [debug_mode |-> FALSE, cpu |-> 1, keep_ids |-> FALSE, rounds |-> 0]

MainIdle == [pc |-> "idle", round |-> 0, to_prepare |-> {},
             preparation_data |-> {}, prepared_records |-> <<>>]

\* no prep operation runs
NoPrep ==
    /\ prep_args = NoArgs
    /\ main = MainIdle
    /\ workers = <<>>
    /\ temp_prep_lock = FALSE
    /\ current_temp_records = <<>>
    /\ temp_records = <<>>
    /\ saves = <<>>

\* dedupe_entries is not running: no entry, the counter at 0, no csv file
NoDedupe ==
    /\ bib_database = <<>>
    /\ current_batch_counter = [value |-> 0, lock |-> 0]
    /\ pool = <<>>
    /\ csv_files = [queue_order |-> <<>>, non_duplicates |-> <<>>,
                    potential_duplicate_tuples |-> <<>>,
                    duplicate_tuples |-> <<>>]
    /\ dedupe = [pc |-> "idle", batch_start |-> 1, batch_end |-> 0,
                 batches |-> 0, before |-> <<>>, committed |-> <<>>]

\* no call of set_ids
NoSetIds == set_ids_call = [pc |-> "idle"]

\* a feed object that is not constructed
NoFeedObject ==
    [pc |-> "none", source_identifier |-> "", origin_prefix |-> "",
     update_only |-> FALSE, update_time_variant_fields |-> TRUE,
     prep_mode |-> FALSE, feed_records |-> <<>>, available_ids |-> <<>>,
     max_id |-> 0, records |-> <<>>, saved |-> <<>>, calls |-> 0]

NoFeedCall ==
    [fn |-> "none", record |-> <<>>, prev_feed_record |-> <<>>,
     entered |-> NoFeedObject, returned |-> "none"]

\* no feed file and no feed object
NoFeed ==
    /\ feed_file = [is_file |-> FALSE, records |-> <<>>]
    /\ feed = NoFeedObject
    /\ feed_call = NoFeedCall

\* no record is retrieved from the local index
NoRetrievals ==
    /\ local_index_lock = 0
    /\ retrievals = <<>>

\* none of the dedupe, set_ids and feed operations runs
NoOps == NoDedupe /\ NoSetIds /\ NoFeed /\ NoRetrievals

EmptyPrior == [colrev_status |-> <<>>, persisted_IDs |-> <<>>]

NoOutcome ==
    [retrieve |-> NotRun, transitions |-> NotRun,
     persisted |-> NotRun, origin |-> NotRun]

\* downstream artifacts that may mention the id of the first record
paper_md ==
    [kind |-> "file", name |-> "paper.md", ignored |-> FALSE,
     path_ids |-> {}, text |-> "other", line_ids |-> {"R1"}]

pdf_file ==
    [kind |-> "file", name |-> "R1.pdf", ignored |-> FALSE,
     path_ids |-> {"R1"}, text |-> "no", line_ids |-> {}]

WorkTrees == {<<>>, <<pdf_file, paper_md>>}

\* the ids an edit may give a record (the last one reads like an origin token)
IDPool == {"R" \o ToString(k) : k \in 1..(MaxRecords + 1)} \cup {Link("s.bib", "1")}

\* the origin values an edit may give a record: an existing source entry,
\* an entry missing from its source file, a non-bib source, or no origin
OriginPool ==
    {<<t>> : t \in all_record_links \cup {Link("s.bib", "0"), Link("t.csv", "1")}}
    \cup {<<"NA">>}

\* a store right after a commit: n records, one per source entry, all at
\* the same lifecycle status
InitialStore(n, s) ==
    [i \in 1..n |-> Entry("R" \o ToString(i), s, <<Link("s.bib", ToString(i))>>)]

Init ==
    /\ \E n \in 1..MaxRecords, s \in States : records_file = InitialStore(n, s)
    /\ prior_file = records_file
    /\ worktree \in WorkTrees
    /\ edits = 0
    /\ pc = "edit"
    /\ prior = EmptyPrior
    /\ status_data = EmptyStatusData
    /\ outcome = NoOutcome
    /\ NoStoreFile
    /\ NoRepo
    /\ NoPrep
    /\ NoOps

\* an operation rewrote the working copy of the records file
Edit(new_file) ==
    /\ edits < MaxEdits
    /\ edits' = edits + 1
    /\ records_file' = new_file
    /\ pc' = "edit"
    /\ prior' = EmptyPrior
    /\ status_data' = EmptyStatusData
    /\ outcome' = NoOutcome
    /\ UNCHANGED <<prior_file, worktree>>
    /\ UNCHANGED <<store_vars, repo_vars, prep_vars, ops_vars>>

\* an operation sets the status of a batch of records ("NA": field dropped)
SetStatus ==
    \E S \in SUBSET DOMAIN records_file, s \in States \cup {"NA"} :
        /\ S # {}
        /\ \E i \in S : records_file[i].colrev_status # s
        /\ Edit([i \in DOMAIN records_file |->
                    IF i \in S THEN [records_file[i] EXCEPT !.colrev_status = s]
                    ELSE records_file[i]])

\* the id of a record is regenerated or edited
SetID ==
    \E i \in DOMAIN records_file, id \in IDPool :
        /\ records_file[i].ID # id
        /\ Edit([records_file EXCEPT ![i].ID = id])

\* the origin of a record is edited
SetOrigin ==
    \E i \in DOMAIN records_file, o \in OriginPool :
        /\ records_file[i].colrev_origin # o
        /\ Edit([records_file EXCEPT ![i].colrev_origin = o])

\* the file without entry j
Without(file, j) ==
    [k \in 1..(Len(file) - 1) |-> IF k < j THEN file[k] ELSE file[k + 1]]

\* apply_merges, one duplicate tuple (row[0] <- row[1]): the origins of the
\* dropped entry are joined to those of the kept one, in either order of
\* list(set(...)), and a prepared entry becomes processed
Merge ==
    \E i, j \in DOMAIN records_file, first \in BOOLEAN :
        /\ i # j
        /\ LET a == records_file[i].colrev_origin
               b == records_file[j].colrev_origin
               extra == SelectSeq(b, LAMBDA t : t \notin Range(a))
               merged == [records_file[i] EXCEPT
                            !.colrev_origin = IF first THEN a \o extra ELSE extra \o a,
                            !.colrev_status = IF @ = "md_prepared"
                                              THEN "md_processed" ELSE @]
           IN  Edit(Without([records_file EXCEPT ![i] = merged], j))

\* a record is removed from the store
Remove ==
    \E j \in DOMAIN records_file : Edit(Without(records_file, j))

\* load: a source entry not yet in the store is imported as a new record
Load ==
    \E t \in all_record_links, id \in IDPool :
        /\ Len(records_file) < MaxRecords
        /\ \A i \in DOMAIN records_file :
              /\ t \notin Range(records_file[i].colrev_origin)
              /\ records_file[i].ID # id
        /\ Edit(Append(records_file, Entry(id, "md_retrieved", <<t>>)))

\* the validation of the working copy against the last commit: the two
\* retrievals, then each check on their results
Check ==
    /\ pc = "edit"
    /\ LET pr == retrieve_prior(prior_file)
           got == retrieve_status_data(pr, records_file)
           ran == got.raised.exc = "none"
           sd == got.status_data
       IN  /\ prior' = pr
           /\ status_data' = sd
           /\ outcome' =
                [retrieve |-> got.raised,
                 transitions |-> IF ran THEN check_status_transitions(sd) ELSE NotRun,
                 persisted |-> IF ran THEN check_persisted_id_changes(pr, sd, worktree)
                               ELSE NotRun,
                 origin |-> IF ran THEN check_main_records_origin(sd) ELSE NotRun]
    /\ pc' = "checked"
    /\ UNCHANGED <<prior_file, records_file, worktree, edits>>
    /\ UNCHANGED <<store_vars, repo_vars, prep_vars, ops_vars>>

Passed ==
    /\ pc = "checked"
    /\ \A c \in DOMAIN outcome : outcome[c].exc = "none"

\* the working copy is committed once the validation raised nothing
Commit ==
    /\ Passed
    /\ prior_file # records_file
    /\ prior_file' = records_file
    /\ pc' = "edit"
    /\ prior' = EmptyPrior
    /\ status_data' = EmptyStatusData
    /\ outcome' = NoOutcome
    /\ UNCHANGED <<records_file, worktree, edits>>
    /\ UNCHANGED <<store_vars, repo_vars, prep_vars, ops_vars>>

Next ==
    \/ SetStatus
    \/ SetID
    \/ SetOrigin
    \/ Merge
    \/ Remove
    \/ Load
    \/ Check
    \/ Commit

Spec == Init /\ [][Next]_vars


\* ---------------------------------------------------------------- properties
\* a validation ran to its end on the current working copy
Validated == pc = "checked" /\ outcome.retrieve.exc = "none"

\* the (record, origin part) positions of the prior revision
PriorPos ==
    UNION { {<<r, k>> : k \in DOMAIN prior_file[r].colrev_origin} :
            r \in DOMAIN prior_file }

Before(p, q) == p[1] < q[1] \/ (p[1] = q[1] /\ p[2] < q[2])

\* the positions of the prior revision that hold an origin token of rec
MatchesOf(rec) ==
    {p \in PriorPos :
        prior_file[p[1]].colrev_origin[p[2]] \in Range(rec.colrev_origin)}

PriorStatuses(rec) == {prior_file[p[1]].colrev_status : p \in MatchesOf(rec)}

\* the status at the first position of the prior revision that matches rec
FirstPrior(rec) ==
    LET first == CHOOSE p \in MatchesOf(rec) :
                    \A q \in MatchesOf(rec) : p = q \/ Before(p, q)
    IN  prior_file[first[1]].colrev_status

IsEdge(p, n) ==
    \E k \in DOMAIN transitions :
        transitions[k].source = p /\ transitions[k].dest = n

TriggerOf(p, n) ==
    transitions[CHOOSE k \in DOMAIN transitions :
                    transitions[k].source = p /\ transitions[k].dest = n].trigger

\* the invalid transition 'record_id: prior to new' of entry i was recorded
Recorded(i, p) ==
    InvalidMsg(records_file[i].ID, p, records_file[i].colrev_status)
        \in Range(status_data.invalid_state_transitions)

\* the transition reported for entry i
Reported(i) == status_data.status_transitions[i]

\* the entries with a prior status whose statuses are lifecycle statuses
WithPrior ==
    {i \in DOMAIN records_file :
        /\ MatchesOf(records_file[i]) # {}
        /\ FirstPrior(records_file[i]) \in States
        /\ records_file[i].colrev_status \in States}

\* C1 (as stated): for every record with a prior status, an invalid
\* transition is recorded if and only if (prior, new) is not an edge of the
\* table, and otherwise the trigger of the edge is reported.
C1_AsStated ==
    Validated =>
        \A i \in WithPrior :
            LET p == FirstPrior(records_file[i])
                n == records_file[i].colrev_status
            IN  /\ Recorded(i, p) <=> ~IsEdge(p, n)
                /\ IsEdge(p, n) => Reported(i) = <<records_file[i].ID, TriggerOf(p, n)>>

\* C1 (amended): for every record with a prior status, an invalid transition
\* 'record_id: prior to new' is recorded if and only if (prior, new) is not
\* an edge of the table and prior differs from new; the trigger of the edge
\* is reported when there is one, and 'load' otherwise (so also for an
\* unchanged status).
C1_TransitionVerdict ==
    Validated =>
        \A i \in WithPrior :
            LET p == FirstPrior(records_file[i])
                n == records_file[i].colrev_status
            IN  /\ Recorded(i, p) <=> (~IsEdge(p, n) /\ p # n)
                /\ Reported(i) = <<records_file[i].ID,
                                   IF IsEdge(p, n) THEN TriggerOf(p, n) ELSE "load">>

\* one batch with a valid, an invalid and an unchanged-status case
C1_Witness ==
    /\ Validated
    /\ \E i, j \in WithPrior :
        /\ Recorded(i, FirstPrior(records_file[i]))
        /\ Reported(i)[2] = "load"
        /\ IsEdge(FirstPrior(records_file[j]), records_file[j].colrev_status)
        /\ Reported(j)[2] = "prep"


\* the entries whose invalid transition was recorded, and their prior statuses
InvalidEntries ==
    {i \in WithPrior : Recorded(i, FirstPrior(records_file[i]))}

StartsOfInvalid == {FirstPrior(records_file[i]) : i \in InvalidEntries}

MultipleStartStates == "multiple transitions from different start states"

InvalidStateTransitions == "invalid state transitions"

\* C2: the aggregate check raises the multiple-start-states error when the
\* recorded invalid transitions have more than one distinct prior status;
\* otherwise, with at least one recorded, the invalid-transition error that
\* lists every recorded 'record_id: prior to new'; and nothing when no
\* invalid transition was recorded.
C2_AggregateCheck ==
    Validated =>
        /\ Range(status_data.invalid_state_transitions) =
              {InvalidMsg(records_file[i].ID, FirstPrior(records_file[i]),
                          records_file[i].colrev_status) : i \in InvalidEntries}
        /\ Cardinality(StartsOfInvalid) > 1 =>
              /\ outcome.transitions.exc = "StatusTransitionError"
              /\ outcome.transitions.kind = MultipleStartStates
        /\ (Cardinality(StartsOfInvalid) <= 1 /\ InvalidEntries # {}) =>
              /\ outcome.transitions.exc = "StatusTransitionError"
              /\ outcome.transitions.kind = InvalidStateTransitions
              /\ \A i \in InvalidEntries :
                    InvalidMsg(records_file[i].ID, FirstPrior(records_file[i]),
                               records_file[i].colrev_status)
                        \in Range(outcome.transitions.msg)
        /\ InvalidEntries = {} => outcome.transitions.exc = "none"

\* a batch whose invalid transitions start from two different statuses
C2_Witness ==
    /\ Validated
    /\ Cardinality(StartsOfInvalid) = 2
    /\ outcome.transitions.kind = MultipleStartStates

\* the entries none of whose origin tokens appears in the prior revision
NoPrior == {i \in DOMAIN records_file : MatchesOf(records_file[i]) = {}}

UniqueID(i) ==
    \A j \in DOMAIN records_file : records_file[j].ID = records_file[i].ID => j = i

\* C3: a record none of whose origin tokens appears in the prior revision
\* is reported as 'load' and adds neither an invalid transition nor a start
\* state, whatever its new status.
C3_LoadWithoutPrior ==
    Validated =>
        /\ \A i \in NoPrior :
              /\ Reported(i) = <<records_file[i].ID, "load">>
              /\ UniqueID(i) => \A p \in States \cup {"NA"} : ~Recorded(i, p)
        /\ Len(status_data.invalid_state_transitions)
              <= Cardinality(DOMAIN records_file \ NoPrior)
        /\ Len(status_data.start_states)
              <= Cardinality(DOMAIN records_file \ NoPrior)
        /\ NoPrior = DOMAIN records_file =>
              /\ status_data.start_states = <<>>
              /\ outcome.transitions.exc = "none"

\* a record without prior at a late status, next to a record with a prior
C3_Witness ==
    /\ Validated
    /\ \E i \in NoPrior, j \in WithPrior :
          /\ records_file[i].colrev_status = "rev_included"
          /\ Reported(i)[2] = "load"
          /\ PriorStatuses(records_file[j]) = {"md_imported"}
    /\ status_data.start_states = <<>>

\* the first (origin, status) pair of the prior revision that matches rec
FirstPair(rec) ==
    LET first == CHOOSE p \in MatchesOf(rec) :
                    \A q \in MatchesOf(rec) : p = q \/ Before(p, q)
    IN  <<prior_file[first[1]].colrev_origin[first[2]],
          prior_file[first[1]].colrev_status>>

\* C4: for a record whose origin tokens map to differing prior statuses the
\* verdict is the one the first matching (origin, status) pair of the prior
\* revision gives alone; the other matching pairs do not change it.
C4_FirstMatchDecides ==
    Validated =>
        \A i \in WithPrior :
            LET rec == records_file[i]
                alone == GetStatusTransitions(
                            rec.ID, rec.colrev_origin,
                            [colrev_status |-> <<FirstPair(rec)>>],
                            rec.colrev_status, EmptyStatusData)
            IN  Cardinality(PriorStatuses(rec)) > 1 =>
                  /\ Reported(i) = alone.status_transition
                  /\ Recorded(i, FirstPrior(rec))
                        <=> alone.status_data.invalid_state_transitions # <<>>
                  /\ Reported(i)[2] =
                        IF IsEdge(FirstPrior(rec), rec.colrev_status)
                        THEN TriggerOf(FirstPrior(rec), rec.colrev_status)
                        ELSE "load"

\* a merged record whose second origin was at another prior status, one
\* from which the new status would have been no edge
C4_Witness ==
    /\ Validated
    /\ \E i \in WithPrior :
          /\ PriorStatuses(records_file[i]) = {"md_prepared", "md_processed"}
          /\ FirstPrior(records_file[i]) = "md_prepared"
          /\ records_file[i].colrev_status = "md_processed"
          /\ Reported(i)[2] = "dedupe"
          /\ status_data.invalid_state_transitions = <<>>

\* the scenario: the store holds R1 with origin s.bib/1, at md_imported in
\* the previous revision and at new_status now
Scenario(new_status) ==
    /\ Validated
    /\ prior_file = <<Entry("R1", "md_imported", <<"s.bib/1">>)>>
    /\ records_file = <<Entry("R1", new_status, <<"s.bib/1">>)>>

\* C5 (as stated): md_imported to md_processed is reported as a valid
\* transition with a trigger; md_imported to rev_included makes the
\* aggregate check fail with the invalid-transition error.
C5_AsStated ==
    /\ Scenario("md_processed") =>
          /\ Reported(1)[2] \in {transitions[k].trigger : k \in DOMAIN transitions}
          /\ status_data.invalid_state_transitions = <<>>
          /\ outcome.transitions.exc = "none"
    /\ Scenario("rev_included") =>
          /\ outcome.transitions.exc = "StatusTransitionError"
          /\ outcome.transitions.kind = InvalidStateTransitions

\* C5 (amended): md_imported to md_prepared is reported as a valid
\* transition with trigger prep; md_imported to md_processed is no edge of
\* the table and, like md_imported to rev_included, makes the aggregate
\* check fail with the invalid-transition error naming the record.
C5_Scenario ==
    /\ Scenario("md_prepared") =>
          /\ Reported(1) = <<"R1", "prep">>
          /\ status_data.invalid_state_transitions = <<>>
          /\ outcome.transitions.exc = "none"
    /\ Scenario("md_processed") =>
          /\ outcome.transitions.exc = "StatusTransitionError"
          /\ outcome.transitions.kind = InvalidStateTransitions
          /\ outcome.transitions.msg = <<"R1: md_imported to md_processed">>
    /\ Scenario("rev_included") =>
          /\ outcome.transitions.exc = "StatusTransitionError"
          /\ outcome.transitions.kind = InvalidStateTransitions
          /\ outcome.transitions.msg = <<"R1: md_imported to rev_included">>

C5_Witness ==
    /\ Scenario("md_processed")
    /\ outcome.transitions.exc = "StatusTransitionError"


\* md_processed and every later lifecycle status
PostProcessed ==
    { "md_processed", "rev_prescreen_excluded", "rev_prescreen_included",
      "pdf_needs_manual_retrieval", "pdf_imported", "pdf_not_available",
      "pdf_needs_manual_preparation", "pdf_prepared",
      "rev_excluded", "rev_included", "rev_synthesized" }

Tok(p) == prior_file[p[1]].colrev_origin[p[2]]

Pid(p) == prior_file[p[1]].ID

\* the entries of the store at md_processed or later that hold origin token o
NowHolders(o) ==
    {c \in DOMAIN records_file :
        /\ o \in Range(records_file[c].colrev_origin)
        /\ records_file[c].colrev_status \in PostProcessed}

\* nothing but ids changed since the prior revision
OnlyIDsChanged ==
    /\ Len(records_file) = Len(prior_file)
    /\ \A i \in DOMAIN records_file :
          /\ records_file[i].colrev_origin = prior_file[i].colrev_origin
          /\ records_file[i].colrev_status = prior_file[i].colrev_status

\* C6: for every origin token whose record was at md_processed or a later
\* status in the prior revision, a different id for that token in the
\* current store makes check_persisted_id_changes raise PropagatedIDChange.
\* Stated for the stores in which nothing but ids changed, so that no
\* origin is removed and each token has one holder.
C6_AsStated ==
    (Validated /\ OnlyIDsChanged) =>
        \A p \in PriorPos :
            (/\ prior_file[p[1]].colrev_status \in PostProcessed
             /\ records_file[p[1]].ID # Pid(p))
            => outcome.persisted.exc = "PropagatedIDChange"

\* the positions of the prior revision whose id is persisted (md_processed)
PersistedPos ==
    {p \in PriorPos : prior_file[p[1]].colrev_status = "md_processed"}

Removed(p) == NowHolders(Tok(p)) = {}

Changed(p) == \E c \in NowHolders(Tok(p)) : records_file[c].ID # Pid(p)

\* the first entry of the store, at md_processed or later, that holds the
\* origin token of p under another id
NewHolder(p) ==
    CHOOSE c \in NowHolders(Tok(p)) :
        /\ records_file[c].ID # Pid(p)
        /\ \A d \in NowHolders(Tok(p)) : records_file[d].ID # Pid(p) => c <= d

MissingOrigin ==
    {i \in DOMAIN records_file : records_file[i].colrev_origin = <<"NA">>}

IsSourceEntry(t) ==
    \E f \in DOMAIN search_dir :
        /\ search_dir[f].suffix = ".bib"
        /\ \E k \in DOMAIN search_dir[f].ids :
              t = search_dir[f].name \o "/" \o search_dir[f].ids[k]

BrokenOrigins ==
    {t \in UNION {Range(records_file[i].colrev_origin) :
                    i \in DOMAIN records_file \ MissingOrigin} :
        ~IsSourceEntry(t)}

SharedOrigin ==
    \E i, j \in DOMAIN records_file :
        /\ i # j
        /\ Range(records_file[i].colrev_origin)
              \cap Range(records_file[j].colrev_origin) # {}

\* C9: with an origin on every entry and no broken origin,
\* check_main_records_origin raises OriginError (non-unique origin) if and
\* only if some origin token is attached to two entries, whatever the ids.
C9_AsStated ==
    (Validated /\ MissingOrigin = {} /\ BrokenOrigins = {}) =>
        /\ outcome.origin.exc = "OriginError" <=> SharedOrigin
        /\ outcome.origin.exc \in {"OriginError", "none"}

\* C10: check_main_records_origin raises OriginError for an entry without
\* origin; else OriginError (broken origins) for an origin token that is no
\* entry of a .bib file of the search directory; both before the
\* uniqueness check.
C10_OriginPrecedence ==
    Validated =>
        /\ MissingOrigin # {} =>
              /\ outcome.origin.exc = "OriginError"
              /\ outcome.origin.kind = "Entries without origin"
              /\ Range(outcome.origin.msg) =
                    {records_file[i].ID : i \in MissingOrigin}
        /\ (MissingOrigin = {} /\ BrokenOrigins # {}) =>
              /\ outcome.origin.exc = "OriginError"
              /\ outcome.origin.kind = "broken origins"
              /\ outcome.origin.msg = BrokenOrigins
        /\ outcome.origin.kind = "Non-unique origin" =>
              (MissingOrigin = {} /\ BrokenOrigins = {})

\* an entry without origin next to an entry with a broken origin
C10_Witness ==
    /\ Validated
    /\ MissingOrigin # {}
    /\ BrokenOrigins # {}
    /\ outcome.origin.kind = "Entries without origin"


(***************************************************************************)
(* RecordCodec and PatchWriter: the records file as the text that          *)
(* parse_bibtex_str writes and that replace_field, update_record_by_id and *)
(* save_record_list_by_id patch in place.  The file is a string, one       *)
(* character per byte, and file positions are byte offsets from 0.         *)
(***************************************************************************)

\* ------------------------------------------------------------ str and bytes
Max(a, b) == IF a > b THEN a ELSE b

\* s[a:b] with a >= 0; a negative b counts from the end
Slice(s, a, b) ==
    LET hi == IF b < 0 THEN Len(s) + b ELSE IF b > Len(s) THEN Len(s) ELSE b
    IN  IF hi <= a THEN "" ELSE SubSeq(s, a + 1, hi)

\* s[a:]
SliceFrom(s, a) == Slice(s, a, Len(s))

CharAt(s, i) == SubSeq(s, i + 1, i + 1)

\* the offsets at which sub occurs in s
Occurrences(s, sub) ==
    {i \in 0..(Len(s) - Len(sub)) : Slice(s, i, i + Len(sub)) = sub}

\* s.find(sub): offset of the first occurrence, -1 if there is none
Find(s, sub) ==
    IF Occurrences(s, sub) = {} THEN -1
    ELSE CHOOSE i \in Occurrences(s, sub) : \A j \in Occurrences(s, sub) : i <= j

\* s.rfind(sub): offset of the last occurrence, -1 if there is none
RFind(s, sub) ==
    IF Occurrences(s, sub) = {} THEN -1
    ELSE CHOOSE i \in Occurrences(s, sub) : \A j \in Occurrences(s, sub) : i >= j

StartsWith(s, p) == Slice(s, 0, Len(p)) = p

Whitespace == {" ", "\n", "\t", "\r"}

RECURSIVE lstrip(_)
lstrip(s) ==
    IF s # "" /\ CharAt(s, 0) \in Whitespace THEN lstrip(SliceFrom(s, 1)) ELSE s

RECURSIVE rstrip(_)
rstrip(s) ==
    IF s # "" /\ CharAt(s, Len(s) - 1) \in Whitespace
    THEN rstrip(Slice(s, 0, Len(s) - 1)) ELSE s

RECURSIVE split(_, _)
\* s.split(sep)
split(s, sep) ==
    LET i == Find(s, sep)
    IN  IF i = -1 THEN <<s>>
        ELSE <<Slice(s, 0, i)>> \o split(SliceFrom(s, i + Len(sep)), sep)

RECURSIVE join(_, _)
\* sep.join(parts)
join(sep, parts) ==
    IF parts = <<>> THEN ""
    ELSE IF Len(parts) = 1 THEN parts[1]
    ELSE parts[1] \o sep \o join(sep, Tail(parts))

RECURSIVE Spaces(_)
\* " " * n
Spaces(n) == IF n <= 0 THEN "" ELSE " " \o Spaces(n - 1)

LowerCase == "abcdefghijklmnopqrstuvwxyz"
UpperCase == "ABCDEFGHIJKLMNOPQRSTUVWXYZ"

RECURSIVE upper(_)
\* s.upper()
upper(s) ==
    IF s = "" THEN ""
    ELSE LET c == CharAt(s, 0)
             i == Find(LowerCase, c)
         IN  (IF i = -1 THEN c ELSE CharAt(UpperCase, i)) \o upper(SliceFrom(s, 1))

\* s.replace(old, new), every occurrence
replace(s, old, new) == join(new, split(s, old))

RECURSIVE LineEnd(_, _)
\* the offset after the line that holds offset i: after its newline, or EOF
LineEnd(f, i) ==
    IF i >= Len(f) THEN Len(f)
    ELSE IF CharAt(f, i) = "\n" THEN i + 1
    ELSE LineEnd(f, i + 1)

\* file.readline() at position pos: the line with its newline, "" at EOF
readline(f, pos) == Slice(f, pos, LineEnd(f, pos))

\* file.write(data) at position pos of a file opened "r+b"
Overwrite(f, pos, data) ==
    Slice(f, 0, pos) \o data \o SliceFrom(f, pos + Len(data))

\* ------------------------------------------------------------- record codec
\* A record dict is [ID, ENTRYTYPE, fields], fields being the other items in
\* dict order as <<key, value>> pairs; a records dict is a sequence of them.
Rec(id, type, fields) == [ID |-> id, ENTRYTYPE |-> type, fields |-> fields]

Keys(fields) == {fields[i][1] : i \in DOMAIN fields}

\* fields[key], for a key of the dict
Get(fields, key) ==
    fields[CHOOSE i \in DOMAIN fields : fields[i][1] = key][2]

\* colrev.record.Record.list_fields_keys and dict_fields_keys
list_fields_keys == {"colrev_origin", "colrev_id"}

dict_fields_keys == {"colrev_masterdata_provenance", "colrev_data_provenance"}

\* a member of the enum RecordState, as opposed to its name
State(name) == [state |-> name]

\* one entry of a provenance dict
Prov(key, source, note) == [key |-> key, source |-> source, note |-> note]

\* Record.get_data(stringify=True), one value: the status by its name, a
\* list "; "-joined, a provenance dict as "key:source;note;" items
stringify(key, value) ==
    IF key = "colrev_status" THEN value.state
    ELSE IF key \in list_fields_keys THEN join("; ", value)
    ELSE IF key \in dict_fields_keys
    THEN join(" ", [i \in DOMAIN value |->
                     value[i].key \o ":" \o value[i].source \o ";"
                         \o value[i].note \o ";"])
    ELSE value

format_field(field, value) ==
    ",\n   " \o field \o " " \o Spaces(Max(0, 28 - Len(field)))
        \o " = {" \o value \o "}"

\* mutant: the status is written before the origin
field_order_StatusFirst ==
    << "colrev_status", "colrev_origin", "colrev_masterdata_provenance",
       "colrev_data_provenance", "colrev_id", "colrev_pdf_id",
       "screening_criteria", "file", "prescreen_exclusion", "doi",
       "grobid-version", "dblp_key", "sem_scholar_id",
       "wos_accession_number", "author", "booktitle", "journal", "title",
       "year", "volume", "number", "pages", "editor" >>

field_order ==
    << "colrev_origin", "colrev_status", "colrev_masterdata_provenance",
       "colrev_data_provenance", "colrev_id", "colrev_pdf_id",
       "screening_criteria", "file", "prescreen_exclusion", "doi",
       "grobid-version", "dblp_key", "sem_scholar_id",
       "wos_accession_number", "author", "booktitle", "journal", "title",
       "year", "volume", "number", "pages", "editor" >>

\* the language of a record as parse_bibtex_str rewrites it before writing
Iso639(fields) ==
    [i \in DOMAIN fields |->
        IF fields[i][1] = "language" /\ fields[i][2] = "en"
        THEN <<"language", replace(fields[i][2], "en", "eng")>>
        ELSE fields[i]]

\* the text of one record
RecordStr(rec) ==
    LET data == [i \in DOMAIN rec.fields |->
                    <<rec.fields[i][1],
                      stringify(rec.fields[i][1], Iso639(rec.fields)[i][2])>>]
        ordered == SelectSeq(field_order,
                       LAMBDA k : k \in Keys(data) /\ Get(data, k) # "")
        others == SelectSeq(data, LAMBDA p : p[1] \notin Range(field_order))
    IN  "@" \o rec.ENTRYTYPE \o "{" \o rec.ID
        \o join("", [i \in DOMAIN ordered |->
                        format_field(ordered[i], Get(data, ordered[i]))])
        \o join("", [i \in DOMAIN others |->
                        format_field(others[i][1], others[i][2])])
        \o ",\n}\n"

\* Dataset.parse_bibtex_str: the text of a records dict
parse_bibtex_str(recs_dict_in) ==
    join("\n", [i \in DOMAIN recs_dict_in |-> RecordStr(recs_dict_in[i])])

RECURSIVE ParseFrom(_, _, _)
\* bibtex.Parser().parse_string: the entries of a text in the format that
\* parse_bibtex_str writes, with the raw text of every field; a one-line
\* @comment entry is skipped
ParseFrom(text, pos, entries) ==
    LET line == readline(text, pos)
        next == pos + Len(line)
        body == lstrip(line)
        n == Len(entries)
    IN  IF line = "" THEN entries
        ELSE IF StartsWith(line, "@") /\ upper(Slice(line, 1, 8)) = "COMMENT"
        THEN ParseFrom(text, next, entries)
        ELSE IF StartsWith(line, "@")
        THEN ParseFrom(text, next,
                 Append(entries,
                     Rec(Slice(line, Find(line, "{") + 1, Find(line, ",")),
                         Slice(line, 1, Find(line, "{")), <<>>)))
        ELSE IF n > 0 /\ Find(body, " ") > 0 /\ Find(line, "{") # -1
        THEN ParseFrom(text, next,
                 [entries EXCEPT ![n].fields =
                     Append(@, <<Slice(body, 0, Find(body, " ")),
                                 Slice(line, Find(line, "{") + 1,
                                       RFind(line, "}"))>>)])
        ELSE ParseFrom(text, next, entries)

\* an entry whose id is repeated is skipped (pybtex, non-strict mode)
FirstOfEachID(entries) ==
    SelectSeq([i \in DOMAIN entries |->
                  IF \E j \in 1..(i - 1) : entries[j].ID = entries[i].ID
                  THEN Rec("", "", <<>>) ELSE entries[i]],
              LAMBDA e : e.ENTRYTYPE # "")

\* Dataset.load_field_dict
load_field_dict(value, field) ==
    LET items == SelectSeq(split(value \o " ", "; "), LAMBDA x : x # "")
        Item(x) == x \o ";"
        Cut(x) == RFind(Slice(Item(x), 0, -1), ";")
        KeySource(x) == Slice(Item(x), 0, Cut(x))
        Note(x) == Slice(Item(x), Cut(x) + 1, -1)
        good == SelectSeq(items, LAMBDA x : Find(KeySource(x), ":") # -1)
        parsed == [i \in DOMAIN good |->
                     Prov(Slice(KeySource(good[i]), 0, Find(KeySource(good[i]), ":")),
                          SliceFrom(KeySource(good[i]),
                                    Find(KeySource(good[i]), ":") + 1),
                          Note(good[i]))]
        fixed == IF Len(split(value, ";")) = 1 THEN value \o ";;"
                 ELSE IF Len(split(value, ";")) = 2 THEN value \o ";"
                 ELSE value
    IN  IF field = "colrev_masterdata_provenance" /\ Slice(value, 0, 7) = "CURATED"
        THEN << Prov("CURATED",
                     IF Find(fixed, ":") # -1
                     THEN Slice(fixed, Find(fixed, ":") + 1,
                                RFind(Slice(fixed, 0, -1), ";"))
                     ELSE "",
                     "") >>
        ELSE parsed

\* Dataset.parse_records_dict, one field of one entry
ParseValue(k, v) ==
    IF k = "colrev_status" THEN State(v)
    ELSE IF k = "doi" THEN upper(v)
    ELSE IF k \in list_fields_keys
    THEN LET els == SelectSeq(split(v \o " ", "; "), LAMBDA el : el # "")
         IN  [i \in DOMAIN els |-> rstrip(els[i])]
    ELSE IF k \in dict_fields_keys THEN load_field_dict(v, k)
    ELSE v

\* Dataset.parse_records_dict
parse_records_dict(entries) ==
    [i \in DOMAIN entries |->
        Rec(entries[i].ID, entries[i].ENTRYTYPE,
            [j \in DOMAIN entries[i].fields |->
                <<entries[i].fields[j][1],
                  ParseValue(entries[i].fields[j][1], entries[i].fields[j][2])>>])]

\* Dataset.load_records_dict(load_str)
load_records_dict(load_str) ==
    parse_records_dict(FirstOfEachID(ParseFrom(load_str, 0, <<>>)))

\* a provenance dict as a mapping, whatever the order of its items
ProvDict(value) ==
    [k \in {value[i].key : i \in DOMAIN value} |->
        LET p == value[CHOOSE i \in DOMAIN value : value[i].key = k]
        IN  [source |-> p.source, note |-> p.note]]

\* a record dict as a mapping, whatever the order of its items
AsDict(rec) ==
    [ID |-> rec.ID, ENTRYTYPE |-> rec.ENTRYTYPE,
     items |-> [k \in Keys(rec.fields) |->
                  IF k \in dict_fields_keys THEN ProvDict(Get(rec.fields, k))
                  ELSE Get(rec.fields, k)]]

IDs(recs) == {recs[i].ID : i \in DOMAIN recs}

\* a records dict as a mapping from id to record, whatever the order
AsMap(recs) ==
    [id \in IDs(recs) |-> AsDict(recs[CHOOSE i \in DOMAIN recs : recs[i].ID = id])]

\* -------------------------------------------------------------- patch writer
\* b"@" in line[:3]
EntryStart(line) == Find(Slice(line, 0, 3), "@") # -1

\* line[line.find(b"{") + 1 : line.rfind(b",")]
CurrentID(line) == Slice(line, Find(line, "{") + 1, RFind(line, ","))

\* the id the scan attributes the line to
CurrentIDStr(line, current_id_str) ==
    IF EntryStart(line) THEN CurrentID(line) ELSE current_id_str

\* mutant of DropRecord: only the entry line of the record is dropped
DropRecord_EntryLineOnly(f, pos) == pos

RECURSIVE DropRecord(_, _)
\* "replace: drop the current record": from position pos, the position of the
\* next line that starts an entry, or the end of the file
DropRecord(f, pos) ==
    LET line == readline(f, pos)
    IN  IF line # "" /\ ~EntryStart(line) THEN DropRecord(f, pos + Len(line))
        ELSE pos

\* ids.remove(x): the list without the first x
Remove1(ids, x) ==
    LET k == Min({i \in DOMAIN ids : ids[i] = x})
    IN  [i \in 1..(Len(ids) - 1) |-> IF i < k THEN ids[i] ELSE ids[i + 1]]

\* the first statements of a call: open(records_file, "r+b"),
\* seekpos = file.tell(), line = file.readline()
Opened(f, c) ==
    LET line == readline(f, 0)
    IN  [c EXCEPT !.pc = "scan", !.seekpos = 0, !.line = line, !.pos = Len(line)]

\* seekpos = file.tell(); line = file.readline()
NextLine(f, c) ==
    LET line == readline(f, c.pos)
    IN  [c EXCEPT !.seekpos = c.pos, !.line = line, !.pos = c.pos + Len(line)]

\* replace_field: the line is one to replace
ReplaceFieldHit(c, line, current_id_str) ==
    /\ current_id_str \in Range(c.ids)
    /\ StartsWith(lstrip(line), c.key)

RECURSIVE ScanReplaceField(_, _)
\* replace_field, the loop up to the next line to replace or to EOF
ScanReplaceField(f, c) ==
    LET cur == CurrentIDStr(c.line, c.current_id_str)
        replacement == Slice(c.line, 0, Find(c.line, "{") + 1) \o c.val \o "},\n"
    IN  IF c.line = "" THEN [c EXCEPT !.pc = "done"]
        ELSE IF ReplaceFieldHit(c, c.line, cur)
        THEN IF Len(replacement) = Len(c.line)
             THEN [c EXCEPT !.current_id_str = cur, !.replacement = replacement,
                            !.in_place = TRUE, !.remaining = "",
                            !.pos = c.seekpos, !.pc = "write"]
             ELSE [c EXCEPT !.current_id_str = cur, !.replacement = replacement,
                            !.in_place = FALSE, !.remaining = SliceFrom(f, c.pos),
                            !.pos = c.seekpos, !.pc = "write",
                            !.log = Append(@, "read_tail")]
        ELSE ScanReplaceField(f, NextLine(f, [c EXCEPT !.current_id_str = cur]))

\* mutant of ScanUpdateRecordByID: the first entry of the file is taken for
\* the record, whatever its id
ScanUpdateRecordByID_FirstEntry(f, c) ==
    IF c.line = "" THEN [c EXCEPT !.pc = "done"]
    ELSE [c EXCEPT !.current_id_str = CurrentIDStr(c.line, c.current_id_str),
                   !.in_place = FALSE,
                   !.remaining = SliceFrom(f, DropRecord(f, c.pos)),
                   !.pos = c.seekpos, !.pc = "write",
                   !.log = Append(@, "read_tail")]

RECURSIVE ScanUpdateRecordByID(_, _)
\* update_record_by_id, the loop up to the entry of the record or to EOF
ScanUpdateRecordByID(f, c) ==
    LET cur == CurrentIDStr(c.line, c.current_id_str)
    IN  IF c.line = "" THEN [c EXCEPT !.pc = "done"]
        ELSE IF cur = c.new_id
        THEN [c EXCEPT !.current_id_str = cur, !.in_place = FALSE,
                       !.remaining = SliceFrom(f, DropRecord(f, c.pos)),
                       !.pos = c.seekpos, !.pc = "write",
                       !.log = Append(@, "read_tail")]
        ELSE ScanUpdateRecordByID(f, NextLine(f, [c EXCEPT !.current_id_str = cur]))

\* save_record_list_by_id: the text written over the entry found
Replacement(record_list, current_id_str) == record_list[1].record

RECURSIVE ScanSaveRecordListByID(_, _)
\* save_record_list_by_id, the loop up to the next entry of the list or to
\* EOF, where the records left are appended (append_new) or reported
ScanSaveRecordListByID(f, c) ==
    LET cur == CurrentIDStr(c.line, c.current_id_str)
    IN  IF c.line = ""
        THEN [c EXCEPT !.pc = IF Len(c.record_list) > 0 /\ c.append_new
                               THEN "append" ELSE "done"]
        ELSE IF \E i \in DOMAIN c.record_list : c.record_list[i].ID = cur
        THEN [c EXCEPT !.current_id_str = cur, !.in_place = FALSE,
                       !.replacement = Replacement(c.record_list, cur),
                       !.record_list = SelectSeq(@, LAMBDA x : x.ID # cur),
                       !.remaining = SliceFrom(f, DropRecord(f, c.pos)),
                       !.pos = c.seekpos, !.pc = "write",
                       !.log = Append(@, "read_tail")]
        ELSE ScanSaveRecordListByID(f, NextLine(f, [c EXCEPT !.current_id_str = cur]))

\* the statements after a patch, up to the next reading of the loop condition
AfterPatch(f, c) ==
    IF c.fn = "replace_field"
    THEN LET ids == Remove1(c.ids, c.current_id_str)
             \* file.seek(seekpos); line = file.readline(), shifted patch only
             at == IF c.in_place THEN c
                   ELSE [c EXCEPT !.line = readline(f, c.seekpos),
                                  !.pos = c.seekpos + Len(readline(f, c.seekpos))]
         IN  IF Len(ids) = 0 THEN [at EXCEPT !.ids = ids, !.pc = "done"]
             ELSE [NextLine(f, at) EXCEPT !.ids = ids, !.pc = "scan"]
    ELSE IF c.fn = "update_record_by_id"
    THEN [c EXCEPT !.line = readline(f, c.seekpos),
                   !.pos = c.seekpos + Len(readline(f, c.seekpos)), !.pc = "done"]
    ELSE [NextLine(f, [c EXCEPT !.pos = c.seekpos]) EXCEPT !.pc = "scan"]

\* the file after the buffered bytes of the call are flushed
Flushed(f, c) == Overwrite(f, c.wpos, c.wbuf)

\* mutant of Written: the text of the record is written even when deleting
Written_IgnoreDelete(c) == c.replacement

\* what the patch writes at the start of the range: nothing when deleting
Written(c) ==
    IF c.fn = "update_record_by_id" /\ c.delete THEN "" ELSE c.replacement

\* mutant of PatchStep: the tail is written back before the flush and fsync
PatchStep_TailBeforeSync(f, c) ==
    IF c.pc = "write"
    THEN IF c.in_place
         THEN [disk |-> f,
               call |-> [c EXCEPT !.wbuf = Written(c), !.wpos = c.pos,
                                  !.pos = c.pos + Len(Written(c)),
                                  !.seekpos = c.pos + Len(Written(c)),
                                  !.log = Append(@, "write_in_place"),
                                  !.pc = "fsync"]]
         ELSE [disk |-> f,
               call |-> [c EXCEPT !.wbuf = Written(c) \o c.remaining,
                                  !.wpos = c.pos,
                                  !.pos = c.pos + Len(Written(c)) + Len(c.remaining),
                                  !.seekpos = c.pos + Len(Written(c)),
                                  !.log = @ \o <<"write", "write_tail">>,
                                  !.pc = "fsync"]]
    ELSE IF c.pc = "fsync"
    THEN LET g == Flushed(f, c)
             d == [c EXCEPT !.wbuf = "", !.log = Append(@, "fsync")]
         IN  [disk |-> g,
              call |-> IF c.in_place THEN AfterPatch(g, d)
                       ELSE [d EXCEPT !.pc = "truncate"]]
    ELSE LET g == Slice(Flushed(f, c), 0, c.pos)
         IN  [disk |-> g,
              call |-> AfterPatch(g, [c EXCEPT !.wbuf = "",
                                               !.log = Append(@, "truncate")])]

\* one file operation of a patch
PatchStep(f, c) ==
    IF c.pc = "write"
    \* file.seek(seekpos); file.write(replacement); seekpos = file.tell()
    THEN [disk |-> f,
          call |-> [c EXCEPT !.wbuf = Written(c), !.wpos = c.pos,
                             !.pos = c.pos + Len(Written(c)),
                             !.seekpos = c.pos + Len(Written(c)),
                             !.log = IF Written(c) = "" THEN @
                                     ELSE Append(@, IF c.in_place
                                                    THEN "write_in_place"
                                                    ELSE "write"),
                             !.pc = "fsync"]]
    ELSE IF c.pc = "fsync"
    \* file.flush(); os.fsync(file)
    THEN LET g == Flushed(f, c)
             d == [c EXCEPT !.wbuf = "", !.log = Append(@, "fsync")]
         IN  [disk |-> g,
              call |-> IF c.in_place THEN AfterPatch(g, d)
                       ELSE [d EXCEPT !.pc = "write_tail"]]
    ELSE IF c.pc = "write_tail"
    \* file.write(remaining)
    THEN [disk |-> f,
          call |-> [c EXCEPT !.wbuf = c.remaining, !.wpos = c.pos,
                             !.pos = c.pos + Len(c.remaining),
                             !.log = Append(@, "write_tail"),
                             !.pc = "truncate"]]
    \* file.truncate(), which flushes the buffer first
    ELSE LET g == Slice(Flushed(f, c), 0, c.pos)
         IN  [disk |-> g,
              call |-> AfterPatch(g, [c EXCEPT !.wbuf = "",
                                               !.log = Append(@, "truncate")])]

\* one step of a running call: the scan up to the next patch, the patch one
\* file operation at a time, the appending of the records left
Step(f, c) ==
    IF c.pc = "scan"
    THEN [disk |-> f,
          call |-> IF c.fn = "replace_field" THEN ScanReplaceField(f, c)
                   ELSE IF c.fn = "update_record_by_id"
                   THEN ScanUpdateRecordByID(f, c)
                   ELSE ScanSaveRecordListByID(f, c)]
    ELSE IF c.pc = "append"
    \* open(records_file, "a"): the records left are written at the end
    THEN [disk |-> f \o join("", [i \in DOMAIN c.record_list |->
                                     c.record_list[i].record]),
          call |-> [c EXCEPT !.record_list = <<>>, !.pc = "done"]]
    ELSE PatchStep(f, c)

RECURSIVE Run(_, _)
\* the call run to its end
Run(f, c) ==
    IF c.pc \in {"idle", "done", "crashed"} THEN [disk |-> f, call |-> c]
    ELSE LET s == Step(f, c) IN Run(s.disk, s.call)

\* replace_field(ids, key, val_str) entered
replace_field(f, ids, key, val_str) ==
    Opened(f, [NoCall EXCEPT !.fn = "replace_field", !.ids = ids,
                             !.key = key, !.val = val_str])

\* update_record_by_id(new_record, delete) entered
update_record_by_id(f, new_record, delete) ==
    Opened(f, [NoCall EXCEPT !.fn = "update_record_by_id",
                             !.new_id = new_record.ID, !.delete = delete,
                             !.replacement =
                                 parse_bibtex_str(<<new_record>>) \o "\n"])

\* save_record_list_by_id: the list of {ID, record} cut out of the text of
\* the records, the last record of a repeated id standing at the place of
\* the first as in a dict
RecordList(record_list) ==
    LET last == [i \in DOMAIN record_list |->
                    record_list[CHOOSE j \in DOMAIN record_list :
                        /\ record_list[j].ID = record_list[i].ID
                        /\ \A k \in DOMAIN record_list :
                              record_list[k].ID = record_list[i].ID => k <= j]]
        record_dict == SelectSeq(
            [i \in DOMAIN record_list |->
                IF \E j \in 1..(i - 1) : record_list[j].ID = record_list[i].ID
                THEN Rec("", "", <<>>) ELSE last[i]],
            LAMBDA r : r.ENTRYTYPE # "")
        parsed == parse_bibtex_str(record_dict)
        items == split(parsed, "\n@")
        list == [i \in DOMAIN items |->
                    [ID |-> Slice(items[i], Find(items[i], "{") + 1,
                                  Find(items[i], ",")),
                     record |-> "@" \o items[i] \o "\n"]]
    IN  [list EXCEPT ![1].record = "@" \o SliceFrom(@, 2)]

\* save_record_list_by_id(record_list, append_new) entered
save_record_list_by_id(f, record_list, append_new) ==
    IF record_list = <<>> THEN [NoCall EXCEPT !.fn = "save_record_list_by_id",
                                              !.pc = "done"]
    ELSE Opened(f, [NoCall EXCEPT !.fn = "save_record_list_by_id",
                                  !.record_list = RecordList(record_list),
                                  !.append_new = append_new,
                                  !.current_id_str = "NOTSET"])

\* ------------------------------------------- state machine of the store file
MaxEntries == 3
MaxCalls == 1

\* the fields of record i of a store, by the kind of record ("misc": an
\* empty title, and two fields outside field_order, not in alphabetical order)
Fields(i, kind) ==
    LET origin == <<"colrev_origin",
                    <<Link("s.bib", IF kind = "shared" THEN "1" ELSE ToString(i))>> >>
        status == <<"colrev_status", State("md_imported")>>
    IN  IF kind = "titleaddon"
        THEN <<origin, status, <<"titleaddon", "b">> >>
        ELSE IF kind = "doi"
        THEN << <<"language", "en">>, <<"doi", "10.1/x">>, <<"title", "a">>,
                status, origin,
                <<"colrev_masterdata_provenance",
                  <<Prov("title", "s.bib", ""), Prov("doi", "s.bib", "manual")>> >>,
                <<"colrev_data_provenance", <<Prov("language", "s.bib", "")>> >> >>
        ELSE IF kind = "misc"
        THEN << <<"url", "u">>, <<"year", "2020">>, origin, <<"title", "">>,
                <<"abstract", "x">>, status >>
        ELSE <<origin, status, <<"title", "a">> >>

StoreIDs == {"R" \o ToString(i) : i \in 1..MaxEntries}

\* the records dicts that are saved: n records of one kind, two records of
\* one origin, one record with an empty title and fields outside field_order
RecordsPool ==
    {[i \in 1..n |-> Rec("R" \o ToString(i), "article", Fields(i, kind))] :
        n \in 1..MaxEntries, kind \in {"title", "titleaddon", "doi"}}
    \cup {[i \in 1..2 |-> Rec("R" \o ToString(i), "article", Fields(i, "shared"))]}
    \cup {<<Rec("R1", "misc", Fields(1, "misc"))>>}

\* ids of a call: up to two ids, of the store or not
IDArgs == StoreIDs \cup {"R9"}

IDLists ==
    {<<a>> : a \in IDArgs} \cup {p \in IDArgs \X IDArgs : p[1] # p[2]}

\* key and value of replace_field: a status of the same length as the one of
\* the store and a longer one, titles of the same length, longer and shorter
\* than the one of the store, a field no record has
KeyVals ==
    { <<"colrev_status", "md_prepared">>, <<"colrev_status", "md_processed">>,
      <<"title", "b">>, <<"title", "bcd">>, <<"title", "">>, <<"note", "x">> }

\* the records a call writes: as long as the one of the store, longer, shorter
NewFields ==
    LET origin == <<"colrev_origin", <<Link("s.bib", "7")>> >>
        status == <<"colrev_status", State("md_prepared")>>
    IN  { <<origin, status, <<"title", "b">> >>,
          <<origin, status, <<"title", "bcd">>, <<"doi", "10.1/y">> >>,
          <<origin, status>> }

NewRecords == {Rec(id, "article", f) : id \in IDArgs, f \in NewFields}

\* the record lists of save_record_list_by_id: the empty list, one record,
\* two records of different ids in either order
RecordLists ==
    LET one(id) == Rec(id, "article",
                       << <<"colrev_origin", <<Link("s.bib", "7")>> >>,
                          <<"colrev_status", State("md_prepared")>>,
                          <<"title", "new " \o id>> >>)
    IN  {<<>>} \cup {<<one(a)>> : a \in IDArgs}
        \cup {<<one(p[1]), one(p[2])>> : p \in {q \in IDArgs \X IDArgs : q[1] # q[2]}}

\* the variables of the status validation, which no operation on the text of
\* the store file reads or writes
NoValidation ==
    /\ prior_file = <<>>
    /\ records_file = <<>>
    /\ worktree = <<>>
    /\ edits = 0
    /\ pc = "edit"
    /\ prior = EmptyPrior
    /\ status_data = EmptyStatusData
    /\ outcome = NoOutcome

PatchInit ==
    /\ NoValidation
    /\ NoStoreFile
    /\ NoRepo
    /\ NoPrep
    /\ NoOps

\* save_records_dict(records): the text of the records is written to the file
SaveRecordsDict ==
    /\ call.pc = "idle"
    /\ disk = ""
    /\ \E m \in RecordsPool :
          /\ records' = m
          /\ disk' = parse_bibtex_str(m)
    /\ UNCHANGED <<call, before, entered, calls>>
    /\ UNCHANGED <<validation_vars, repo_vars, prep_vars, ops_vars>>

\* a call of the patch writer is entered
Enter(c) ==
    /\ call.pc \in {"idle", "done"}
    /\ disk # ""
    /\ calls < MaxCalls
    /\ calls' = calls + 1
    /\ call' = c
    /\ entered' = c
    /\ before' = disk
    /\ UNCHANGED <<disk, records>>
    /\ UNCHANGED <<validation_vars, repo_vars, prep_vars, ops_vars>>

ReplaceField ==
    \E ids \in IDLists, kv \in KeyVals :
        Enter(replace_field(disk, ids, kv[1], kv[2]))

UpdateRecordByID ==
    \E new_record \in NewRecords, delete \in BOOLEAN :
        Enter(update_record_by_id(disk, new_record, delete))

SaveRecordListByID ==
    \E record_list \in RecordLists, append_new \in BOOLEAN :
        Enter(save_record_list_by_id(disk, record_list, append_new))

\* the running call takes its next step
Advance(at) ==
    /\ call.pc = at
    /\ LET s == Step(disk, call)
       IN  disk' = s.disk /\ call' = s.call
    /\ UNCHANGED <<before, entered, calls, records>>
    /\ UNCHANGED <<validation_vars, repo_vars, prep_vars, ops_vars>>

Scan == Advance("scan")

Write == Advance("write")

Fsync == Advance("fsync")

WriteTail == Advance("write_tail")

Truncate == Advance("truncate")

AppendNew == Advance("append")

\* the process aborts: the bytes not yet flushed are lost
Crash ==
    /\ call.pc \notin {"idle", "done", "crashed"}
    /\ call' = [call EXCEPT !.pc = "crashed", !.wbuf = ""]
    /\ UNCHANGED <<disk, before, entered, calls, records>>
    /\ UNCHANGED <<validation_vars, repo_vars, prep_vars, ops_vars>>

PatchNext ==
    \/ SaveRecordsDict
    \/ ReplaceField
    \/ UpdateRecordByID
    \/ SaveRecordListByID
    \/ Scan
    \/ Write
    \/ Fsync
    \/ WriteTail
    \/ Truncate
    \/ AppendNew
    \/ Crash

PatchSpec == PatchInit /\ [][PatchNext]_vars


\* ------------------------------------------- properties of the store file
\* the call of fn ran to its end
Done(fn) == call.fn = fn /\ call.pc = "done"

\* the entries of a text, each field with its raw text
RawEntries(text) == ParseFrom(text, 0, <<>>)

\* the ids of the entries of a text, in file order
IDSeq(text) == [i \in DOMAIN RawEntries(text) |-> RawEntries(text)[i].ID]

\* the offsets at which an entry of the text begins
Starts(text) ==
    {i \in 0..(Len(text) - 1) :
        CharAt(text, i) = "@" /\ (i = 0 \/ CharAt(text, i - 1) = "\n")}

\* the offset at which the entry of id begins
StartOf(text, id) ==
    CHOOSE s \in Starts(text) :
        LET line == readline(text, s)
        IN  Slice(line, Find(line, "{") + 1, Find(line, ",")) = id

\* the offset at which the entry after the one at s begins, or the end
NextStart(text, s) ==
    IF \E t \in Starts(text) : t > s
    THEN Min({t \in Starts(text) : t > s})
    ELSE Len(text)

\* the sequence without its entry of that id
WithoutID(recs, id) == SelectSeq(recs, LAMBDA r : r.ID # id)

\* the record that reading the text of new_record yields
AsRead(new_record) == load_records_dict(parse_bibtex_str(<<new_record>>))[1]

\* the record the call of update_record_by_id was given
NewRecord ==
    CHOOSE r \in NewRecords :
        parse_bibtex_str(<<r>>) \o "\n" = entered.replacement

\* the ids of the entries of the text are unique, as in a store
UniqueIDs(text) ==
    \A i, j \in DOMAIN IDSeq(text) : IDSeq(text)[i] = IDSeq(text)[j] => i = j

\* update_record_by_id replaced an entry of the file
Updated ==
    /\ Done("update_record_by_id")
    /\ ~call.delete
    /\ UniqueIDs(before)
    /\ call.new_id \in Range(IDSeq(before))

\* the bytes before the entry of id and from the next entry on are those of
\* the file before the call
OutsideUnchanged(id) ==
    LET s == StartOf(before, id)
        e == NextStart(before, s)
    IN  /\ Slice(disk, 0, s) = Slice(before, 0, s)
        /\ SliceFrom(disk, Len(disk) - (Len(before) - e)) = SliceFrom(before, e)

\* the records of the file are those before the call, in the same order,
\* with the one of id replaced by rec
ReplacedBy(id, rec) ==
    LET old == load_records_dict(before)
        now == load_records_dict(disk)
    IN  /\ Len(now) = Len(old)
        /\ \A i \in DOMAIN old :
              AsDict(now[i]) = AsDict(IF old[i].ID = id THEN rec ELSE old[i])

\* C11 (as stated): no save leaves a file in which two records share an
\* origin token.
C11_AsStated ==
    (records # <<>> /\ calls = 0) =>
        LET now == load_records_dict(disk)
        IN  \A i, j \in DOMAIN now :
              i # j => Range(Get(now[i].fields, "colrev_origin"))
                           \cap Range(Get(now[j].fields, "colrev_origin")) = {}

EntryOf(text, id) ==
    LET recs == load_records_dict(text)
    IN  AsDict(recs[CHOOSE i \in DOMAIN recs : recs[i].ID = id])

\* C13 (as stated): after save_record_list_by_id, whatever the order of the
\* list, every record of the list whose id is in the file stands in the file
\* under its id, the other entries are unchanged, and no entry is lost or
\* duplicated.
C13_AsStated ==
    (Done("save_record_list_by_id") /\ entered.record_list # <<>>) =>
        LET given == entered.record_list
            listed == {given[i].ID : i \in DOMAIN given}
            old == IDSeq(before)
            now == IDSeq(disk)
        IN  /\ \A i \in DOMAIN given :
                  given[i].ID \in Range(old) =>
                      /\ given[i].ID \in Range(now)
                      /\ EntryOf(disk, given[i].ID)
                             = EntryOf(given[i].record, given[i].ID)
            /\ \A id \in Range(old) \ listed :
                  id \in Range(now) /\ EntryOf(disk, id) = EntryOf(before, id)
            /\ Range(old) \subseteq Range(now)
            /\ \A i, j \in DOMAIN now : now[i] = now[j] => i = j

RECURSIVE LinesFrom(_, _)
\* the lines of a text from offset pos on
LinesFrom(text, pos) ==
    IF pos >= Len(text) THEN <<>>
    ELSE LET line == readline(text, pos)
         IN  <<line>> \o LinesFrom(text, pos + Len(line))

Lines(text) == LinesFrom(text, 0)

\* the id of the entry that line k of the lines belongs to
OwnerOf(lines, k) ==
    LET heads == {j \in 1..k : StartsWith(lines[j], "@")}
        h == CHOOSE j \in heads : \A i \in heads : i <= j
    IN  IF heads = {} THEN "NA"
        ELSE Slice(lines[h], Find(lines[h], "{") + 1, Find(lines[h], ","))

\* the name of the field a line holds, "" for any other line
FieldName(line) ==
    IF Find(line, " = {") = -1 THEN ""
    ELSE Slice(lstrip(line), 0, Find(lstrip(line), " "))

\* the lines, of the lines of a file, that hold the field key of an id of ids
TargetLines(lines, ids, key) ==
    {k \in DOMAIN lines :
        /\ FieldName(lines[k]) = key
        /\ OwnerOf(lines, k) \in Range(ids)}

\* C14 (as stated): after replace_field(ids, key, val) the field named
\* exactly key of every id of ids has the value val, and no other field
\* (also not one whose name starts with key), entry or byte changed.
C14_AsStated ==
    Done("replace_field") =>
        LET old == Lines(before)
            now == Lines(disk)
        IN  /\ Len(now) = Len(old)
            /\ \A k \in DOMAIN old :
                  now[k] = IF k \in TargetLines(old, entered.ids, entered.key)
                           THEN Slice(old[k], 0, Find(old[k], "{") + 1)
                                    \o entered.val \o "},\n"
                           ELSE old[k]

\* update_record_by_id deleted an entry of the file
Deleted ==
    /\ Done("update_record_by_id")
    /\ call.delete
    /\ UniqueIDs(before)
    /\ call.new_id \in Range(IDSeq(before))

\* C15: update_record_by_id with delete=True removes exactly the entry of
\* the record: the file is the one before the call without the bytes
\* [entry start, next entry start), and it parses to the original records
\* without that id.
C15_DeleteExact ==
    Deleted =>
        LET s == StartOf(before, call.new_id)
            e == NextStart(before, s)
        IN  /\ disk = Slice(before, 0, s) \o SliceFrom(before, e)
            /\ load_records_dict(disk)
                   = WithoutID(load_records_dict(before), call.new_id)

\* a middle entry was deleted
C15_Witness ==
    /\ Deleted
    /\ StartOf(before, call.new_id) > 0
    /\ NextStart(before, StartOf(before, call.new_id)) < Len(before)
    /\ Len(IDSeq(disk)) = Len(IDSeq(before)) - 1

\* the target of the call does not occur in the file before the call: the id
\* of update_record_by_id, or for replace_field the field key in the entries
\* of the ids
TargetMissing ==
    \/ /\ call.fn = "update_record_by_id"
       /\ call.new_id \notin Range(IDSeq(before))
    \/ /\ call.fn = "replace_field"
       /\ TargetLines(Lines(before), entered.ids, entered.key) = {}

\* C16 (as stated): a call whose target id or field does not occur in the
\* file returns with the file byte-identical.
C16_AsStated == (call.pc = "done" /\ TargetMissing) => disk = before

\* C17 (as stated): when the process aborts during a patch the file is the
\* one before the call or the one after the complete call, never a mixture.
C17_AsStated ==
    call.pc = "crashed" =>
        disk = before \/ disk = Run(before, entered).disk

\* the operation before operation i of the log
Prev(i) == IF i = 1 THEN "none" ELSE call.log[i - 1]

\* C18: in every patch that changes the length of the file, the tail is read
\* first, then the replacement is written at the start of the range (nothing
\* when deleting), then the file is flushed and fsynced, then the tail is
\* written back, then the file is truncated: the tail is written right after
\* the fsync and the truncation right after the tail.
C18_StepOrder ==
    /\ \A i \in DOMAIN call.log :
          /\ call.log[i] = "write" => Prev(i) = "read_tail"
          /\ call.log[i] = "write_in_place" => Prev(i) \notin {"read_tail", "write"}
          /\ call.log[i] = "fsync" =>
                \/ Prev(i) \in {"write", "write_in_place"}
                \/ Prev(i) = "read_tail" /\ call.delete
          /\ call.log[i] = "write_tail" =>
                /\ Prev(i) = "fsync"
                /\ i > 2
                /\ call.log[i - 2] \in {"write", "read_tail"}
          /\ call.log[i] = "truncate" => Prev(i) = "write_tail"
          /\ call.log[i] = "read_tail" => Prev(i) \in {"none", "truncate", "fsync"}
    /\ (call.pc = "done" /\ call.log # <<>>) =>
          call.log[Len(call.log)] \in {"truncate", "fsync"}
    /\ (call.pc = "done" /\ call.fn # "save_record_list_by_id"
            /\ Len(disk) # Len(before)) =>
          call.log[Len(call.log)] = "truncate"

\* a call that made the file longer ran all five steps
C18_Witness ==
    /\ call.pc = "done"
    /\ Len(disk) > Len(before)
    /\ call.log = <<"read_tail", "write", "fsync", "write_tail", "truncate">>

\* C19 (as stated): parsing the text of a records dict yields the records
\* dict.
C19_AsStated ==
    (records # <<>> /\ calls = 0) =>
        AsMap(load_records_dict(disk)) = AsMap(records)

\* C20 (as stated): the text of the records parsed from the text of a
\* records dict is byte-equal to that text.
C20_AsStated ==
    (records # <<>> /\ calls = 0) =>
        parse_bibtex_str(load_records_dict(disk)) = disk

\* ------------------------------------------------ order of the fields written
\* a records dict was saved and no call has patched the file since
Saved == records # <<>> /\ calls = 0

\* the names of the fields of entry i of the file, in file order
WrittenNames(i) ==
    LET e == RawEntries(disk)[i]
    IN  [j \in DOMAIN e.fields |-> e.fields[j][1]]

\* the names of the fields of a record, in dict order
NamesOf(rec) == [j \in DOMAIN rec.fields |-> rec.fields[j][1]]

\* the fields of a record outside field_order, in encounter order
Remaining(rec) == SelectSeq(NamesOf(rec), LAMBDA k : k \notin Range(field_order))

\* the fields of field_order that a record carries, in that order
Carried(rec) == SelectSeq(field_order, LAMBDA k : k \in Keys(rec.fields))

\* those of them whose text is not empty
CarriedNonEmpty(rec) ==
    SelectSeq(Carried(rec),
              LAMBDA k : stringify(k, Get(rec.fields, k)) # "")

\* the index, in the lines of the file, of the first line of entry i
HeadLine(lines, i) ==
    CHOOSE h \in DOMAIN lines :
        /\ StartsWith(lines[h], "@")
        /\ Cardinality({j \in 1..h : StartsWith(lines[j], "@")}) = i

\* line 2 of entry i holds the origin and line 3 the status
OriginThenStatus(i) ==
    LET lines == Lines(disk)
        h == HeadLine(lines, i)
    IN  /\ h + 2 <= Len(lines)
        /\ FieldName(lines[h + 1]) = "colrev_origin"
        /\ FieldName(lines[h + 2]) = "colrev_status"

Unchanged ==
    {i \in WithPrior :
        /\ FirstPrior(records_file[i]) = records_file[i].colrev_status
        /\ ~IsEdge(records_file[i].colrev_status, records_file[i].colrev_status)}

\* the entries whose status changed along an edge of the table
AlongEdge ==
    {i \in WithPrior :
        /\ FirstPrior(records_file[i]) # records_file[i].colrev_status
        /\ IsEdge(FirstPrior(records_file[i]), records_file[i].colrev_status)}

\* C30: a record whose status is the one of the prior revision (and the
\* table has no edge from that status to itself) is reported as 'load' and
\* adds neither an invalid transition nor a start state; a batch in which
\* every record is new, unchanged or changed along an edge of the table
\* passes the aggregate check.
C30_UnchangedIsLoad ==
    Validated =>
        /\ \A i \in Unchanged :
              /\ Reported(i) = <<records_file[i].ID, "load">>
              /\ ~Recorded(i, records_file[i].colrev_status)
        /\ Len(status_data.start_states)
              <= Cardinality(DOMAIN records_file \ (Unchanged \cup NoPrior))
        /\ Len(status_data.invalid_state_transitions)
              <= Cardinality(DOMAIN records_file \ (Unchanged \cup NoPrior))
        /\ DOMAIN records_file = Unchanged \cup AlongEdge \cup NoPrior =>
              /\ status_data.start_states = <<>>
              /\ status_data.invalid_state_transitions = <<>>
              /\ outcome.transitions.exc = "none"

\* a batch of one unchanged record and one record changed along an edge
\* passed the aggregate check
C30_Witness ==
    /\ Validated
    /\ Unchanged # {}
    /\ AlongEdge # {}
    /\ DOMAIN records_file = Unchanged \cup AlongEdge
    /\ \E i \in Unchanged : Reported(i)[2] = "load"
    /\ outcome.transitions.exc = "none"

(***************************************************************************)
(* Readers of the store file and queries of its history.  The history is   *)
(* what iter_commits(paths=records file) lists: the text of the file in    *)
(* every commit that touches it, newest first.                             *)
(***************************************************************************)

\* --------------------------------------------------------------- header scan
RECURSIVE lstrip_chars(_, _)
\* s.lstrip(chars)
lstrip_chars(s, chars) ==
    IF s # "" /\ CharAt(s, 0) \in chars
    THEN lstrip_chars(SliceFrom(s, 1), chars) ELSE s

RECURSIVE rstrip_chars(_, _)
\* s.rstrip(chars)
rstrip_chars(s, chars) ==
    IF s # "" /\ CharAt(s, Len(s) - 1) \in chars
    THEN rstrip_chars(Slice(s, 0, Len(s) - 1), chars) ELSE s

\* parse_k_v of __read_record_header_items (s.split("{")[1] needs a "{")
parse_k_v(s) ==
    LET at == Find(s, " = ")
        key == IF at # -1 THEN Slice(s, 0, at) ELSE "ID"
        value == IF at # -1 THEN SliceFrom(s, at + 3) ELSE split(s, "{")[2]
    IN  << rstrip(lstrip(key)),
           rstrip_chars(lstrip_chars(rstrip(lstrip(value)), {"{"}), {"}", ","}) >>

HeaderKeys ==
    {"ID", "colrev_origin", "colrev_status", "screening_criteria", "file",
     "colrev_masterdata_provenance"}

\* default of __read_record_header_items
default == [k \in HeaderKeys |-> "NA"]

number_required_header_items == Cardinality(HeaderKeys)

RECURSIVE HeaderLoop(_, _, _)
\* the loop of __read_record_header_items from offset pos on, st holding
\* record_header_item, current_header_item_count,
\* current_key_value_pair_str and record_header_items
HeaderLoop(f, pos, st) ==
    LET line == readline(f, pos)
        next == pos + Len(line)
        appended == [st EXCEPT !.items = Append(@, st.item),
                               !.item = default, !.count = 0]
        head == Find(Slice(line, 0, 2), "@") # -1
        st1 == IF head /\ st.item["ID"] # "NA" THEN appended ELSE st
        kv == st1.kv \o line
    IN  IF line = "" THEN Append(st.items, st.item)
        ELSE IF Slice(line, 0, 1) = "%" \/ line = "\n"
        THEN HeaderLoop(f, next, st)
        ELSE IF st.count > number_required_header_items \/ line = "}"
        THEN HeaderLoop(f, next, appended)
        ELSE IF Find(line, "},") # -1 \/ head
        THEN LET p == parse_k_v(kv)
             IN  HeaderLoop(f, next,
                    IF p[1] \in HeaderKeys
                    THEN [st1 EXCEPT !.kv = "", !.count = @ + 1,
                                     !.item = [@ EXCEPT ![p[1]] = p[2]]]
                    ELSE [st1 EXCEPT !.kv = ""])
        ELSE HeaderLoop(f, next, [st1 EXCEPT !.kv = kv])

\* Dataset.__read_record_header_items
read_record_header_items(f) ==
    HeaderLoop(f, 0, [item |-> default, count |-> 0, kv |-> "", items |-> <<>>])

\* ------------------------------------------------------------ record strings
RECURSIVE RecordStrLoop(_, _, _, _, _)
\* yield_from_file of __read_next_record_str from offset pos on
RecordStrLoop(f, pos, data, first_entry_processed, out) ==
    LET line == readline(f, pos)
        next == pos + Len(line)
    IN  IF line = "" THEN Append(out, data)
        ELSE IF Slice(line, 0, 1) = "%" \/ line = "\n"
        THEN RecordStrLoop(f, next, data, first_entry_processed, out)
        ELSE IF Slice(line, 0, 1) # "@"
        THEN RecordStrLoop(f, next, data \o line, first_entry_processed, out)
        ELSE RecordStrLoop(f, next, line, TRUE,
                 IF first_entry_processed THEN Append(out, data) ELSE out)

\* Dataset.__read_next_record_str: the record strings of a text
read_next_record_str(f) == RecordStrLoop(f, 0, "", FALSE, <<>>)

\* line[line.find("{") + 1 : line.rfind(end)]
Braced(line, end) == Slice(line, Find(line, "{") + 1, RFind(line, end))

RECURSIVE ScanLines(_, _, _)
\* the line scan of retrieve_prior and of retrieve_status_data over the lines
\* of one record string (comment_aware: the scan of retrieve_status_data,
\* which stops at a line holding "@Comment")
ScanLines(lines, got, comment_aware) ==
    IF lines = <<>> THEN got
    ELSE LET line == Head(lines)
             g1 == IF Find(Slice(line, 0, 3), "@") # -1
                   THEN [got EXCEPT !.ID = Braced(line, ",")] ELSE got
             g2 == IF Slice(lstrip(line), 0, 13) = "colrev_status"
                   THEN [g1 EXCEPT !.colrev_status = Braced(line, "}")] ELSE g1
             g3 == IF Slice(rstrip(lstrip(line)), 0, 13) = "colrev_origin"
                   THEN [g2 EXCEPT !.colrev_origin = Braced(line, "}")] ELSE g2
         IN  IF comment_aware /\ Find(line, "@Comment") # -1
             THEN [got EXCEPT !.ID = "Comment"]
             ELSE ScanLines(Tail(lines), g3, comment_aware)

Scanned(record_string, comment_aware) ==
    ScanLines(split(record_string, "\n"),
              [ID |-> "NA", colrev_status |-> "NA", colrev_origin |-> "NA"],
              comment_aware)

\* the entries of a revision as retrieve_prior reads them
PriorEntries(text) ==
    LET strs == read_next_record_str(text)
    IN  [i \in DOMAIN strs |->
            LET got == Scanned(strs[i], FALSE)
            IN  Entry(got.ID, got.colrev_status, split(got.colrev_origin, ";"))]

\* list(revlist)[0][1]: the newest revision, IndexError when there is none
\* Dataset.retrieve_prior over the history
retrieve_prior_from_history(revlist) ==
    IF revlist = <<>>
    THEN [fn |-> "retrieve_prior", value |-> <<>>, raised |-> "IndexError"]
    ELSE [fn |-> "retrieve_prior",
          value |-> retrieve_prior(PriorEntries(revlist[1])),
          raised |-> "none"]

\* "{CURATED:" in record_string
MarkedCurated(record_string) == Find(record_string, "{CURATED:") # -1

\* Dataset.get_records_curated_prior_from_history
get_records_curated_prior_from_history(revlist) ==
    IF revlist = <<>>
    THEN [fn |-> "get_records_curated_prior_from_history",
          value |-> <<>>, raised |-> "none"]
    ELSE LET strs == SelectSeq(read_next_record_str(revlist[1]), MarkedCurated)
         IN  [fn |-> "get_records_curated_prior_from_history",
              value |-> [i \in DOMAIN strs |-> load_records_dict(strs[i])[1]],
              raised |-> "none"]

\* Dataset.records_changed: the file differs between working tree and index
\* or between index and HEAD; False when no commit touches the file
records_changed(f, exists, idx, revlist) ==
    LET unstaged == idx.tracked /\ (~exists \/ f # idx.text)
        staged == IF revlist = <<>> THEN idx.tracked
                  ELSE ~idx.tracked \/ idx.text # revlist[1]
    IN  [fn |-> "records_changed",
         value |-> IF revlist = <<>> THEN FALSE ELSE unstaged \/ staged,
         raised |-> "none"]

\* status_data["IDs"] as the loop of retrieve_status_data collects it
StatusIDs(f) ==
    LET strs == read_next_record_str(f)
        ids == [i \in DOMAIN strs |-> Scanned(strs[i], TRUE).ID]
    IN  SelectSeq(ids, LAMBDA id : id \notin {"Comment", "NA"})

\* Dataset.check_main_records_duplicates
check_main_records_duplicates(sd) ==
    IF Len(sd.IDs) # Cardinality(Range(sd.IDs))
    THEN LET duplicates == SelectSeq(sd.IDs, LAMBDA id : Count(id, sd.IDs) > 1)
         IN  IF Len(duplicates) > 20
             THEN Raise("DuplicateIDsError", "Duplicates in RECORDS_FILE",
                        SubSeq(duplicates, 1, 20) \o <<"...">>)
             ELSE Raise("DuplicateIDsError", "Duplicates in RECORDS_FILE",
                        duplicates)
    ELSE NoError

\* ----------------------------------------------------------- colrev_id lists
\* Record.create_colrev_id: the fingerprint of the identifying fields of a
\* record; "" when the record has not enough data to identify it
create_colrev_id(fields) ==
    IF "title" \in Keys(fields) /\ Get(fields, "title") # ""
    THEN "colrev_id1:|a|" \o Get(fields, "title")
    ELSE ""

\* load_origin_records: the entry of the search source behind every origin
origin_records ==
    [o \in all_record_links |->
        << <<"title", IF o = Link("s.bib", "1") THEN "a" ELSE "c">> >>]

\* data[key] = value
SetField(fields, key, value) ==
    IF key \in Keys(fields)
    THEN [i \in DOMAIN fields |->
            IF fields[i][1] = key THEN <<key, value>> ELSE fields[i]]
    ELSE Append(fields, <<key, value>>)

RECURSIVE add_colrev_ids(_, _)
\* Record.add_colrev_ids: the fingerprint of every given record is appended
\* to the list unless it is in it
add_colrev_ids(ids, recs) ==
    IF recs = <<>> THEN ids
    ELSE LET cid == create_colrev_id(Head(recs))
         IN  add_colrev_ids(IF cid = "" \/ cid \in Range(ids) THEN ids
                            ELSE Append(ids, cid),
                            Tail(recs))

\* the loop body of update_colrev_ids for one record (records of the model
\* have at most one origin, so the order of set(origins) does not matter)
UpdatedColrevIDs(rec) ==
    LET colrev_id == create_colrev_id(rec.fields)
        origins == IF "colrev_origin" \in Keys(rec.fields)
                   THEN Get(rec.fields, "colrev_origin") ELSE <<>>
        known == SelectSeq(origins, LAMBDA o : o \in DOMAIN origin_records)
    IN  IF colrev_id = "" THEN rec
        ELSE [rec EXCEPT !.fields =
                 SetField(@, "colrev_id",
                     add_colrev_ids(<<colrev_id>>,
                                    [i \in DOMAIN known |-> origin_records[known[i]]]))]

\* Dataset.update_colrev_ids, up to its call of add_record_changes: the text
\* of the records file after the call
update_colrev_ids(f) ==
    LET recs_dict == load_records_dict(f)
    IN  IF Len(recs_dict) > 0
        THEN parse_bibtex_str([i \in DOMAIN recs_dict |->
                                  UpdatedColrevIDs(recs_dict[i])])
        ELSE f

\* ------------------------------------ state machine of the store and its git
MaxCommits == 2
MaxPolls == 2

\* the fields of the records of the stores, by kind: a curated record that
\* carries the fingerprint of an earlier field-set, a record that is not
\* curated, a screened record with a file, a record without title
RepoFields(kind) ==
    LET status(s) == <<"colrev_status", State(s)>>
        origin(k) == <<"colrev_origin", <<Link("s.bib", k)>> >>
    IN  IF kind = "curated"
        THEN << origin("1"), status("md_prepared"),
                <<"colrev_masterdata_provenance", <<Prov("CURATED", "url", "")>> >>,
                <<"colrev_id", <<"colrev_id1:|a|a", "colrev_id1:|a|z">> >>,
                <<"title", "b">> >>
        ELSE IF kind = "plain"
        THEN << origin("1"), status("md_imported"),
                <<"colrev_masterdata_provenance", <<Prov("title", "s.bib", "")>> >>,
                <<"title", "a">> >>
        ELSE IF kind = "screened"
        THEN << origin("2"), status("rev_included"),
                <<"colrev_id", <<"colrev_id1:|a|c">> >>,
                <<"screening_criteria", "x=no">>, <<"file", "R2.pdf">>,
                <<"title", "c">> >>
        ELSE << origin("2"), status("md_imported"),
                <<"colrev_id", <<"colrev_id1:|a|q">> >> >>

RepoRec(id, kind) == Rec(id, "article", RepoFields(kind))

\* the texts of the records file: no record, a %-line before two records
\* (one of them curated), two entries of one id, a record followed by a
\* comment entry
StoreTexts ==
    { parse_bibtex_str(<<>>),
      "% note\n" \o parse_bibtex_str(<<RepoRec("R1", "curated"),
                                       RepoRec("R2", "screened")>>),
      parse_bibtex_str(<<RepoRec("R1", "plain"), RepoRec("R1", "untitled")>>),
      parse_bibtex_str(<<RepoRec("R2", "screened")>>) \o "\n@Comment{note}\n" }

RECORDS_FILE_RELATIVE == "records.bib"

SETTINGS_RELATIVE == "settings.json"

\* what the readers, the history queries and the staging leave alone
RepoFrame ==
    UNCHANGED <<validation_vars, prep_vars, ops_vars, records, call, entered, calls>>

RepoInit ==
    /\ NoValidation
    /\ NoStoreFile
    /\ NoRepo
    /\ NoPrep
    /\ NoOps

\* no call of add_changes, add_record_changes or add_setting_changes is
\* under way and nothing is staged
Settled == staging.pc = "idle"

\* the records file is written: by an operation, or edited by hand
WriteStore ==
    /\ Settled
    /\ \E text \in StoreTexts :
          /\ disk' = text
          /\ text # disk \/ ~is_file
    /\ is_file' = TRUE
    /\ before' = ""
    /\ answer' = NoAnswer
    /\ staging' = NotStaging
    /\ UNCHANGED <<history, index, index_lock>>
    /\ RepoFrame

\* a reader or a query is called
Query(result) ==
    /\ staging.pc = "idle"
    /\ answer' = result
    /\ UNCHANGED <<disk, before, is_file, history, index, index_lock, staging>>
    /\ RepoFrame

\* get_record_header_list and the other callers of the header scan, which
\* return [] without a records file
ReadRecordHeaderItems ==
    /\ is_file
    /\ Query([fn |-> "read_record_header_items",
              value |-> read_record_header_items(disk), raised |-> "none"])

LoadRecordsDict ==
    Query([fn |-> "load_records_dict",
           value |-> IF is_file THEN load_records_dict(disk) ELSE <<>>,
           raised |-> "none"])

\* the duplicate check, on the IDs that retrieve_status_data collected
CheckMainRecordsDuplicates ==
    /\ is_file
    /\ LET raised == check_main_records_duplicates([IDs |-> StatusIDs(disk)])
       IN  Query([fn |-> "check_main_records_duplicates",
                  value |-> raised.msg, raised |-> raised.exc])

RetrievePrior == Query(retrieve_prior_from_history(history))

GetRecordsCuratedPriorFromHistory ==
    Query(get_records_curated_prior_from_history(history))

RecordsChanged == Query(records_changed(disk, is_file, index, history))

\* a call waits for the index lock before it stages path
Stage(path) ==
    /\ staging' = [NotStaging EXCEPT !.pc = "waiting", !.path = path]
    /\ UNCHANGED <<is_file, history, index, index_lock>>

\* Dataset.update_colrev_ids: the records are saved with their new colrev_id
\* lists, then add_record_changes is entered
UpdateColrevIds ==
    /\ Settled
    /\ is_file
    /\ LET recs_dict == load_records_dict(disk)
       IN  /\ Len(recs_dict) > 0
           /\ disk' = update_colrev_ids(disk)
    /\ before' = disk
    /\ answer' = [fn |-> "update_colrev_ids", value |-> <<>>, raised |-> "none"]
    /\ Stage(RECORDS_FILE_RELATIVE)
    /\ RepoFrame

\* add_record_changes, add_changes(path) or add_setting_changes is called,
\* also after a call that failed
Staging(path) ==
    /\ staging.pc \in {"idle", "failed"}
    /\ is_file
    /\ staging' = [NotStaging EXCEPT !.pc = "waiting", !.path = path]
    /\ answer' = NoAnswer
    /\ before' = ""
    /\ UNCHANGED <<disk, is_file, history, index, index_lock>>
    /\ RepoFrame

AddRecordChanges == Staging(RECORDS_FILE_RELATIVE)

AddChanges == Staging("custom_prep_script.py")

AddSettingChanges == Staging(SETTINGS_RELATIVE)

\* index.add([path]), which fails while another git operation holds the lock
IndexAdd ==
    IF index_lock
    THEN /\ staging' = [staging EXCEPT !.pc = "failed", !.polls = 0]
         /\ index' = index
    ELSE /\ staging' = [staging EXCEPT !.pc = "staged", !.polls = 0]
         /\ index' = IF staging.path = RECORDS_FILE_RELATIVE
                     THEN [tracked |-> TRUE, text |-> disk]
                     ELSE index

\* one test of the loop condition: the marker is there and the call sleeps
\* 0.5 s before the next test, or it is not and the loop is left; polls
\* counts the tests that found the marker, up to MaxPolls
Poll ==
    /\ staging.pc = "waiting"
    /\ IF index_lock
       THEN staging' = [staging EXCEPT !.polls = Min({@ + 1, MaxPolls}),
                                       !.marker = "present"]
       ELSE staging' = [staging EXCEPT !.pc = "adding", !.marker = "absent"]
    /\ UNCHANGED <<disk, before, answer, is_file, history, index, index_lock>>
    /\ RepoFrame

\* the loop was left: the path is added to the index
Add ==
    /\ staging.pc = "adding"
    /\ IndexAdd
    /\ UNCHANGED <<disk, before, answer, is_file, history, index_lock>>
    /\ RepoFrame

\* another git operation starts and creates .git/index.lock
GitStart ==
    /\ ~index_lock
    /\ staging.pc \in {"waiting", "adding"}
    /\ index_lock' = TRUE
    /\ UNCHANGED <<disk, before, answer, is_file, history, index, staging>>
    /\ RepoFrame

\* the other git operation ends and removes the marker
GitFinish ==
    /\ index_lock
    /\ index_lock' = FALSE
    /\ UNCHANGED <<disk, before, answer, is_file, history, index, staging>>
    /\ RepoFrame

\* create_commit: the index is committed; the commit touches the records
\* file when its text differs from the one of the last commit
CreateCommit ==
    /\ staging.pc = "staged"
    /\ ~index_lock
    /\ Len(history) < MaxCommits
    /\ history' = IF index.tracked /\ (history = <<>> \/ history[1] # index.text)
                  THEN <<index.text>> \o history
                  ELSE history
    /\ staging' = NotStaging
    /\ UNCHANGED <<disk, before, answer, is_file, index, index_lock>>
    /\ RepoFrame

RepoNext ==
    \/ WriteStore
    \/ ReadRecordHeaderItems
    \/ LoadRecordsDict
    \/ CheckMainRecordsDuplicates
    \/ RetrievePrior
    \/ GetRecordsCuratedPriorFromHistory
    \/ RecordsChanged
    \/ UpdateColrevIds
    \/ AddRecordChanges
    \/ AddChanges
    \/ AddSettingChanges
    \/ Poll
    \/ Add
    \/ GitStart
    \/ GitFinish
    \/ CreateCommit

RepoSpec == RepoInit /\ [][RepoNext]_vars

\* ------------------------------------ properties of the readers and queries
\* the header item of an entry of the file
HeaderItemOf(e) ==
    [k \in HeaderKeys |->
        IF k = "ID" THEN e.ID
        ELSE IF k \in Keys(e.fields) THEN Get(e.fields, k)
        ELSE "NA"]

\* one header item per entry of the text that is not a comment entry
ExpectedHeaderItems(text) ==
    LET entries == RawEntries(text)
    IN  [i \in DOMAIN entries |-> HeaderItemOf(entries[i])]

\* C22 (as stated): the header scan returns one header item per non-comment
\* entry of the file, in file order (none for a file without entries), with
\* the six header values of the entry and "NA" for those it lacks, whatever
\* the blank lines and %-lines of the file.
C22_AsStated ==
    answer.fn = "read_record_header_items" =>
        answer.value = ExpectedHeaderItems(disk)

\* C23 (as stated): a text in which an id appears in two entries is rejected
\* by the parser, which never returns records from which an entry was
\* dropped, and the duplicate check raises DuplicateIDsError exactly when an
\* id occurs in more than one non-comment entry.
C23_AsStated ==
    /\ (answer.fn = "load_records_dict" /\ is_file) =>
          /\ ~UniqueIDs(disk) => answer.raised # "none"
          /\ answer.raised = "none" =>
                [i \in DOMAIN answer.value |-> answer.value[i].ID] = IDSeq(disk)
    /\ answer.fn = "check_main_records_duplicates" =>
          (answer.raised = "DuplicateIDsError" <=> ~UniqueIDs(disk))

\* C26 (as stated): the path is added to the index only after a test that
\* found no marker, and a call that found the marker MaxPolls times has
\* stopped waiting.
C26_AsStated ==
    /\ staging.pc \in {"adding", "staged", "failed"} => staging.marker = "absent"
    /\ staging.pc = "waiting" => staging.polls < MaxPolls

\* the fingerprints of the record of id in a text
FingerprintsOf(text, id) ==
    LET recs == load_records_dict(text)
        held == {i \in DOMAIN recs :
                    recs[i].ID = id /\ "colrev_id" \in Keys(recs[i].fields)}
    IN  UNION {Range(Get(recs[i].fields, "colrev_id")) : i \in held}

\* C27 (as stated): after update_colrev_ids, every record carries every
\* fingerprint it carried before the call.
C27_AsStated ==
    answer.fn = "update_colrev_ids" =>
        \A id \in Range(IDSeq(before)) :
            FingerprintsOf(before, id) \subseteq FingerprintsOf(disk, id)

IsCurated(rec) ==
    /\ "colrev_masterdata_provenance" \in Keys(rec.fields)
    /\ \E i \in DOMAIN Get(rec.fields, "colrev_masterdata_provenance") :
          Get(rec.fields, "colrev_masterdata_provenance")[i].key = "CURATED"

\* the ids of the curated records of a revision
CuratedIn(text) ==
    LET recs == load_records_dict(text)
    IN  {recs[i].ID : i \in {j \in DOMAIN recs : IsCurated(recs[j])}}

\* C28 (as stated): get_records_curated_prior_from_history returns every
\* record that is curated in some committed revision of the store.
C28_AsStated ==
    answer.fn = "get_records_curated_prior_from_history" =>
        \A k \in DOMAIN history :
            CuratedIn(history[k])
                \subseteq {answer.value[j].ID : j \in DOMAIN answer.value}

\* C29 (as stated): while no commit touches the records file, no history
\* query raises: retrieve_prior gives a prior without statuses and persisted
\* ids, get_records_curated_prior_from_history gives the empty list and
\* records_changed gives False.
C29_AsStated ==
    history = <<>> =>
        /\ answer.fn \in {"retrieve_prior", "records_changed",
                          "get_records_curated_prior_from_history"} =>
              answer.raised = "none"
        /\ answer.fn = "retrieve_prior" => answer.value = EmptyPrior
        /\ answer.fn = "get_records_curated_prior_from_history" =>
              answer.value = <<>>
        /\ answer.fn = "records_changed" => answer.value = FALSE

(***************************************************************************)
(* Prep.main (colrev/ops/prep.py): the rounds of a prep operation.  The    *)
(* prepare calls of a round run in a thread pool, or one after the other   *)
(* when cpu is 1, and each appends its record to cur_temp_recs.bib under   *)
(* temp_prep_lock; the operation saves the records of the round to the     *)
(* store.  The store is the records dict, here the id and the status of    *)
(* every record.                                                           *)
(***************************************************************************)
MaxItems == 2
MaxRounds == 2

Items == 1..MaxItems

PrepID(i) == "R" \o ToString(i)

\* the statuses _load_prep_data selects
r_states_to_prepare == {"md_imported", "md_needs_manual_preparation"}

\* a prepare call that has not started
NotStarted == [pc |-> "none", acquired |-> FALSE, colrev_status |-> "md_imported"]

\* what a prep operation leaves alone
PrepFrame ==
    UNCHANGED <<validation_vars, repo_vars, ops_vars, disk, call, before, entered,
                calls>>

\* a store of imported and prepared records; cur_temp_recs.bib may hold the
\* record that an interrupted run appended to it
PrepInit ==
    /\ NoValidation
    /\ NoRepo
    /\ disk = "" /\ call = NoCall /\ before = "" /\ entered = NoCall /\ calls = 0
    /\ \E status \in [Items -> {"md_imported", "md_prepared"}] :
          records = [i \in Items |-> Entry(PrepID(i), status[i], <<>>)]
    /\ prep_args = NoArgs
    /\ main = MainIdle
    /\ workers = <<>>
    /\ temp_prep_lock = FALSE
    /\ current_temp_records \in {<<>>, <<Entry(PrepID(1), "md_prepared", <<>>)>>}
    /\ temp_records = <<>>
    /\ saves = <<>>
    /\ NoOps

\* Prep.main is called; _initialize_prep: in debug mode cpu is 1
Main ==
    /\ main.pc = "idle"
    /\ \E debug_mode \in BOOLEAN, cpu \in {1, MaxItems}, keep_ids \in BOOLEAN,
          rounds \in 1..MaxRounds :
          prep_args' = [debug_mode |-> debug_mode,
                        cpu |-> IF debug_mode THEN 1 ELSE cpu,
                        keep_ids |-> keep_ids, rounds |-> rounds]
    /\ main' = [main EXCEPT !.pc = "round", !.round = 1]
    /\ UNCHANGED <<records, workers, temp_prep_lock, current_temp_records,
                   temp_records, saves>>
    /\ PrepFrame

\* {**temp_recs, **cur_temp_recs}
Combined(temp_recs, cur_temp_recs) ==
    [j \in DOMAIN temp_recs |->
        IF \E k \in DOMAIN cur_temp_recs : cur_temp_recs[k].ID = temp_recs[j].ID
        THEN cur_temp_recs[CHOOSE k \in DOMAIN cur_temp_recs :
                               cur_temp_recs[k].ID = temp_recs[j].ID]
        ELSE temp_recs[j]]
        \o SelectSeq(cur_temp_recs,
                     LAMBDA r : \A j \in DOMAIN temp_recs : temp_recs[j].ID # r.ID)

\* _setup_prep_round and _get_preparation_data: the records to prepare are
\* loaded, cur_temp_recs.bib is merged into temp_recs.bib and the records of
\* temp_recs.bib are skipped; main returns when there is nothing to do,
\* else the prepare calls are made: all at once by pool.map, or one after
\* the other
GetPreparationData ==
    /\ main.pc = "round"
    /\ LET temp_recs == IF current_temp_records # <<>>
                        THEN Combined(temp_records, current_temp_records)
                        ELSE temp_records
           loaded == {i \in Items :
                        records[i].colrev_status \in r_states_to_prepare}
           items == {i \in loaded :
                       \A j \in DOMAIN temp_recs : temp_recs[j].ID # PrepID(i)}
       IN  /\ temp_records' = temp_recs
           /\ current_temp_records' = <<>>
           /\ IF items = {} /\ temp_recs = <<>>
              THEN /\ main' = [main EXCEPT !.pc = "returned", !.to_prepare = loaded]
                   /\ workers' = <<>>
              ELSE /\ main' = [main EXCEPT
                                 !.pc = IF prep_args.cpu = 1 THEN "loop" ELSE "map",
                                 !.to_prepare = loaded,
                                 !.preparation_data = items,
                                 !.prepared_records = <<>>]
                   /\ workers' =
                        [i \in items |->
                            [NotStarted EXCEPT
                               !.pc = IF prep_args.cpu = 1 THEN "none" ELSE "prepare",
                               !.colrev_status = records[i].colrev_status]]
    /\ UNCHANGED <<prep_args, records, temp_prep_lock, saves>>
    /\ PrepFrame

\* the step of one prepare call
Work(w, now) ==
    /\ w \in DOMAIN workers
    /\ workers[w].pc = now
    /\ UNCHANGED <<prep_args, main, records, temp_records, saves>>
    /\ PrepFrame

\* cpu = 1: main makes the next prepare call when the one before returned
StartNext ==
    \E w \in Items :
        /\ main.pc = "loop"
        /\ Work(w, "none")
        /\ \A v \in DOMAIN workers :
              workers[v].pc = (IF v < w THEN "returned" ELSE "none")
        /\ workers' = [workers EXCEPT ![w].pc = "prepare"]
        /\ UNCHANGED <<temp_prep_lock, current_temp_records>>

\* Prep.prepare up to its call of _save_to_temp: the packages of the round
\* and the quality model set the status of the record
Prepare ==
    \E w \in Items, status \in {"md_prepared", "md_needs_manual_preparation"} :
        /\ Work(w, "prepare")
        /\ workers' = [workers EXCEPT ![w].pc = "acquire",
                                      ![w].colrev_status = status]
        /\ UNCHANGED <<temp_prep_lock, current_temp_records>>

\* temp_prep_lock.acquire(timeout=120) returns True: the lock was free
Acquire ==
    \E w \in Items :
        /\ Work(w, "acquire")
        /\ ~temp_prep_lock
        /\ temp_prep_lock' = TRUE
        /\ workers' = [workers EXCEPT ![w].pc = "append", ![w].acquired = TRUE]
        /\ UNCHANGED current_temp_records

\* temp_prep_lock.acquire(timeout=120) returns False: the lock was held for
\* 120 s; the result is not looked at and the call goes on
Timeout ==
    \E w \in Items :
        /\ Work(w, "acquire")
        /\ temp_prep_lock
        /\ workers' = [workers EXCEPT ![w].pc = "append", ![w].acquired = FALSE]
        /\ UNCHANGED <<temp_prep_lock, current_temp_records>>

\* the text of the record is appended to cur_temp_recs.bib
Append_ ==
    \E w \in Items :
        /\ Work(w, "append")
        /\ current_temp_records' =
              Append(current_temp_records,
                     Entry(PrepID(w), workers[w].colrev_status, <<>>))
        /\ workers' = [workers EXCEPT ![w].pc = "release"]
        /\ UNCHANGED temp_prep_lock

\* temp_prep_lock.release(), whoever holds the lock; the ValueError of an
\* unlocked lock is passed over; prepare returns the record
Release ==
    \E w \in Items :
        /\ Work(w, "release")
        /\ temp_prep_lock' = FALSE
        /\ workers' = [workers EXCEPT ![w].pc = "returned"]
        /\ UNCHANGED current_temp_records

\* mutant: the results are taken without waiting for the prepare calls
AllReturned_NoWait == TRUE

\* every prepare call of the round has returned
AllReturned == \A w \in DOMAIN workers : workers[w].pc = "returned"

\* pool.map returned, pool.close(), pool.join() (cpu = 1: the loop ended):
\* prepared_records holds the results in the order of the items
Join ==
    /\ main.pc \in {"map", "loop"}
    /\ AllReturned
    /\ main' = [main EXCEPT
                  !.pc = "joined",
                  !.prepared_records =
                      LET S == main.preparation_data
                          nth(k) == CHOOSE i \in S :
                                      Cardinality({j \in S : j < i}) = k - 1
                      IN  [k \in 1..Cardinality(S) |->
                              Entry(PrepID(nth(k)), workers[nth(k)].colrev_status, <<>>)]]
    /\ UNCHANGED <<prep_args, records, workers, temp_prep_lock,
                   current_temp_records, temp_records, saves>>
    /\ PrepFrame

\* _complete_resumed_operation: the records of temp_recs.bib that were not
\* prepared in this round are added, both temporary files are removed
CompleteResumedOperation ==
    /\ main.pc = "joined"
    /\ main' = [main EXCEPT
                  !.pc = "merged",
                  !.prepared_records =
                      @ \o SelectSeq(temp_records,
                               LAMBDA r : \A j \in DOMAIN main.prepared_records :
                                             main.prepared_records[j].ID # r.ID)]
    /\ temp_records' = <<>>
    /\ current_temp_records' = <<>>
    /\ UNCHANGED <<prep_args, records, workers, temp_prep_lock, saves>>
    /\ PrepFrame

\* save_records_dict(prepared_records, partial=True)
Partial(recs, prepared_records) ==
    [i \in DOMAIN recs |->
        IF \E j \in DOMAIN prepared_records : prepared_records[j].ID = recs[i].ID
        THEN prepared_records[CHOOSE j \in DOMAIN prepared_records :
                                  prepared_records[j].ID = recs[i].ID]
        ELSE recs[i]]

\* a call of save_records_dict as the log of saves keeps it: the round, the
\* phase, the prepare calls that had not returned, whether the records of
\* the temporary files were merged in, how many these were, and the
\* records saved
Save(phase) ==
    [round |-> main.round, phase |-> phase,
     pending |-> {w \in DOMAIN workers : workers[w].pc # "returned"},
     merged |-> main.pc \in {"merged", "post"} /\ temp_records = <<>>
                    /\ current_temp_records = <<>>,
     resumed |-> Len(main.prepared_records) - Cardinality(main.preparation_data),
     records |-> main.prepared_records]

\* _create_prep_commit: unless in debug mode, the records of the round are
\* saved and committed; then the next round, if any
CreatePrepCommit ==
    /\ main.pc = "merged"
    /\ IF ~prep_args.debug_mode
       THEN /\ records' = Partial(records, main.prepared_records)
            /\ saves' = Append(saves, Save("prep_commit"))
       ELSE UNCHANGED <<records, saves>>
    /\ main' = IF main.round < prep_args.rounds
               THEN [main EXCEPT !.pc = "round", !.round = @ + 1]
               ELSE [main EXCEPT !.pc = "post"]
    /\ UNCHANGED <<prep_args, workers, temp_prep_lock, current_temp_records,
                   temp_records>>
    /\ PrepFrame

\* after the rounds: dataset.set_ids() saves the records under their new
\* ids, unless keep_ids or debug mode
SetIDs ==
    /\ main.pc = "post"
    /\ saves' = IF ~prep_args.keep_ids /\ ~prep_args.debug_mode
                THEN Append(saves, Save("set_ids"))
                ELSE saves
    /\ main' = [main EXCEPT !.pc = "done"]
    /\ UNCHANGED <<prep_args, records, workers, temp_prep_lock,
                   current_temp_records, temp_records>>
    /\ PrepFrame

PrepNext ==
    \/ Main
    \/ GetPreparationData
    \/ StartNext
    \/ Prepare
    \/ Acquire
    \/ Timeout
    \/ Append_
    \/ Release
    \/ Join
    \/ CompleteResumedOperation
    \/ CreatePrepCommit
    \/ SetIDs

PrepSpec == PrepInit /\ [][PrepNext]_vars

(***************************************************************************)
(* The temporary buffer file and the saves of a prep operation.            *)
(***************************************************************************)
\* the prepare calls inside the append section of _save_to_temp
InAppendSection ==
    {w \in DOMAIN workers : workers[w].pc \in {"append", "release"}}

\* C24: in no interleaving are two workers at once inside the append
\* section of _save_to_temp, between acquiring and releasing temp_prep_lock,
\* also when a worker waited longer than the 120 s of the acquire timeout.
C24_AsStated == Cardinality(InAppendSection) <= 1

\* the saves of the prep commit of round r
SavesOf(r) ==
    {i \in DOMAIN saves : saves[i].phase = "prep_commit" /\ saves[i].round = r}

\* round r ran to its end
RoundCompleted(r) ==
    \/ main.round > r
    \/ main.round = r /\ main.pc \in {"post", "done"}

\* the prepare calls of the round are made or awaited, or their records
\* are being merged
InRound == main.pc \in {"map", "loop", "joined", "merged"}

\* no prepare call writes the store, and a save of a round is made after
\* every prepare call of the round returned and the records of the
\* temporary files were merged in
SavedAfterJoin ==
    /\ InRound =>
          \A i \in main.preparation_data :
              records[i].colrev_status \in r_states_to_prepare
    /\ \A i \in DOMAIN saves :
          saves[i].phase = "prep_commit" =>
              saves[i].pending = {} /\ saves[i].merged

\* C25 as stated: during a prep round no worker writes the store; the store
\* is rewritten once per round by the operation, and only after every
\* prepare call of the round returned and the buffered records of a resumed
\* run were merged in.
C25_AsStated ==
    /\ SavedAfterJoin
    /\ \A r \in 1..MaxRounds : RoundCompleted(r) => Cardinality(SavesOf(r)) = 1

\* C25: during a prep round no worker writes the store; the store is
\* rewritten at most once per round by the operation, and only after every
\* prepare call of the round returned and the buffered records of a resumed
\* run were merged in; a round that ran to its end rewrote the store once,
\* and in debug mode not at all.
C25_OncePerRound ==
    /\ SavedAfterJoin
    /\ \A r \in 1..MaxRounds :
          /\ Cardinality(SavesOf(r)) <= 1
          /\ SavesOf(r) # {} => ~prep_args.debug_mode /\ r <= main.round
          /\ RoundCompleted(r) =>
                Cardinality(SavesOf(r)) = (IF prep_args.debug_mode THEN 0 ELSE 1)

\* two rounds of a resumed run with a pool: in each the prepare calls
\* appended to the buffer, and each round saved once, the first with the
\* record of the interrupted run
C25_Witness ==
    /\ ~prep_args.debug_mode
    /\ prep_args.cpu > 1
    /\ main.pc = "post"
    /\ main.round = MaxRounds
    /\ Cardinality(DOMAIN workers) >= 1
    /\ records[1].colrev_status = "md_prepared"
    /\ records[MaxItems].colrev_status \in
          {"md_prepared", "md_needs_manual_preparation"}
    /\ \A r \in 1..MaxRounds : Cardinality(SavesOf(r)) = 1
    /\ saves[1].resumed = 1

(***************************************************************************)
(* dedupe_entries (review_template/dedupe.py): batches of append_merges    *)
(* calls in a process pool, each followed by apply_merges.  An entry is    *)
(* its ID, its md_status and its origin; the origin, a ';'-joined text     *)
(* that apply_merges splits, makes a set of and joins again in no          *)
(* particular order, is the set of its tokens.                             *)
(***************************************************************************)
MaxDedupe == 4
BATCH_SIZE == 2
CPUS == 2

DedupeEntry(id, origin, md_status) ==
    [ID |-> id, origin |-> origin, md_status |-> md_status]

\* the first entry with the id, 0 if there is none
IndexOfID(entries, id) ==
    IF \E i \in DOMAIN entries : entries[i].ID = id
    THEN CHOOSE i \in DOMAIN entries :
            /\ entries[i].ID = id
            /\ \A k \in 1..(i - 1) : entries[k].ID # id
    ELSE 0

\* 'prepared' == entry['md_status']: entry.update(md_status='processed')
Processed(entry) ==
    IF entry.md_status = "prepared"
    THEN [entry EXCEPT !.md_status = "processed"] ELSE entry

\* apply_merges, one row of duplicate_tuples.csv (row[0] <- row[1]): the
\* entry of row[1] is dropped, then its origins are joined to those of the
\* entry of row[0], if there is one
MergeRow(entries, row) ==
    LET j == IndexOfID(entries, row[2])
        el_to_merge == IF j = 0 THEN {} ELSE entries[j].origin
        kept == IF j = 0 THEN entries
                ELSE SelectSeq(entries, LAMBDA e : e.ID # row[2])
        i == IndexOfID(kept, row[1])
    IN  IF i = 0 THEN kept
        ELSE [kept EXCEPT
                ![i] = Processed([@ EXCEPT !.origin = el_to_merge \cup @])]

RECURSIVE MergeRows(_, _)
MergeRows(entries, rows) ==
    IF rows = <<>> THEN entries
    ELSE MergeRows(MergeRow(entries, Head(rows)), Tail(rows))

\* apply_merges: the rows of duplicate_tuples.csv are merged, the entries
\* of non_duplicates.csv become processed, the entries in the second and
\* third column of potential_duplicate_tuples.csv need manual merging
apply_merges(entries, files) ==
    LET merged == MergeRows(entries, files.duplicate_tuples)
        non == [i \in DOMAIN merged |->
                  IF \E r \in Range(files.non_duplicates) : r[1] = merged[i].ID
                  THEN Processed(merged[i]) ELSE merged[i]]
    IN  [i \in DOMAIN non |->
            IF \E r \in Range(files.potential_duplicate_tuples) :
                  non[i].ID = r[2] \/ non[i].ID = r[3]
            THEN [non[i] EXCEPT !.md_status = "needs_manual_merging"]
            ELSE non[i]]

\* the csv files after apply_merges: queue_order.csv and non_duplicates.csv
\* are removed
AfterApply(files) ==
    [files EXCEPT !.queue_order = <<>>, !.non_duplicates = <<>>]

\* what dedupe_entries leaves alone
DedupeFrame ==
    UNCHANGED <<validation_vars, store_vars, repo_vars, prep_vars,
                set_ids_call, feed_vars, local_index_vars>>

\* the entries of the references file, each from one search result
DedupeInit ==
    /\ NoValidation /\ NoStoreFile /\ NoRepo /\ NoPrep
    /\ NoSetIds /\ NoFeed /\ NoRetrievals
    /\ \E status \in [1..MaxDedupe ->
                        {"prepared", "processed", "needs_manual_preparation"}] :
          bib_database = [i \in 1..MaxDedupe |->
                            DedupeEntry("R" \o ToString(i),
                                        {"s.bib/" \o ToString(i)}, status[i])]
    /\ current_batch_counter = [value |-> 0, lock |-> 0]
    /\ pool = <<>>
    /\ csv_files = [queue_order |-> <<>>, non_duplicates |-> <<>>,
                    potential_duplicate_tuples |-> <<>>,
                    duplicate_tuples |-> <<>>]
    /\ dedupe = [pc |-> "idle", batch_start |-> 1, batch_end |-> 0,
                 batches |-> 0, before |-> <<>>, committed |-> <<>>]

\* a batch starts: under the lock of the counter, batch_start is advanced
\* by the counter and the counter is reset; pool.map hands every entry to
\* append_merges
StartBatch ==
    /\ dedupe.pc \in {"idle", "loop"}
    /\ current_batch_counter.lock = 0
    /\ dedupe' = [dedupe EXCEPT !.pc = "map",
                                !.batch_start = @ + current_batch_counter.value,
                                !.committed = csv_files.potential_duplicate_tuples]
    /\ current_batch_counter' = [current_batch_counter EXCEPT !.value = 0]
    /\ pool' = [e \in DOMAIN bib_database |->
                  [pc |-> "pending", counted |-> FALSE,
                   md_status |-> bib_database[e].md_status]]
    /\ UNCHANGED <<bib_database, csv_files>>
    /\ DedupeFrame

\* the step of one append_merges call
Task(e, now) ==
    /\ dedupe.pc = "map"
    /\ e \in DOMAIN pool
    /\ pool[e].pc = now
    /\ UNCHANGED <<bib_database, dedupe>>
    /\ DedupeFrame

\* a process of the pool takes the entry: append_merges returns at once
\* unless the entry is prepared
Call ==
    \E e \in 1..MaxDedupe :
        /\ Task(e, "pending")
        /\ Cardinality({w \in DOMAIN pool :
                          pool[w].pc \in {"lock", "locked", "counted"}}) < CPUS
        /\ pool' = [pool EXCEPT ![e].pc = IF pool[e].md_status # "prepared"
                                          THEN "returned" ELSE "lock"]
        /\ UNCHANGED <<current_batch_counter, csv_files>>

\* with current_batch_counter.get_lock(): the lock is taken
GetLock ==
    \E e \in 1..MaxDedupe :
        /\ Task(e, "lock")
        /\ current_batch_counter.lock = 0
        /\ current_batch_counter' = [current_batch_counter EXCEPT !.lock = e]
        /\ pool' = [pool EXCEPT ![e].pc = "locked"]
        /\ UNCHANGED csv_files

\* mutant: the batch is never full
BatchFull_Never(value) == FALSE

\* current_batch_counter.value >= BATCH_SIZE
BatchFull(value) == value >= BATCH_SIZE

\* under the lock: return if the batch is full, else count the entry; the
\* lock is released
CountEntry ==
    \E e \in 1..MaxDedupe :
        /\ Task(e, "locked")
        /\ IF BatchFull(current_batch_counter.value)
           THEN /\ pool' = [pool EXCEPT ![e].pc = "returned"]
                /\ current_batch_counter' =
                      [current_batch_counter EXCEPT !.lock = 0]
           ELSE /\ pool' = [pool EXCEPT ![e].pc = "counted", ![e].counted = TRUE]
                /\ current_batch_counter' =
                      [current_batch_counter EXCEPT !.value = @ + 1, !.lock = 0]
        /\ UNCHANGED csv_files

\* get_prev_queue: the origins queued before the origin
get_prev_queue(queue_order, origin) ==
    IF \E idx \in DOMAIN queue_order : queue_order[idx] = origin
    THEN SubSeq(queue_order, 1,
                (CHOOSE idx \in DOMAIN queue_order :
                    /\ queue_order[idx] = origin
                    /\ \A k \in 1..(idx - 1) : queue_order[k] # origin) - 1)
    ELSE <<>>

merge_ignore_status == {"needs_manual_preparation", "needs_manual_merging"}

\* a row is appended to a csv file, after its header if the file is new
WithRow(file, header, row) ==
    (IF file = <<>> THEN <<header>> ELSE file) \o <<row>>

\* the rest of append_merges: the origin is queued (a new queue_order.csv
\* starts with the origins of the processed entries); without two origins
\* queued before it or without a prior entry the entry is a non-duplicate;
\* else the similarity to the prior entries makes it a non-duplicate, a
\* potential duplicate or a duplicate of the most similar one
Classify ==
    \E e \in 1..MaxDedupe :
        /\ Task(e, "counted")
        /\ pool' = [pool EXCEPT ![e].pc = "returned"]
        /\ UNCHANGED current_batch_counter
        /\ LET entry == bib_database[e]
               started == IF csv_files.queue_order = <<>>
                          THEN [i \in 1..Len(SelectSeq(bib_database,
                                         LAMBDA x : x.md_status = "processed")) |->
                                   SelectSeq(bib_database,
                                       LAMBDA x : x.md_status = "processed")[i].origin]
                          ELSE csv_files.queue_order
               queue_order == Append(started, entry.origin)
               required_prior_entry_links ==
                   get_prev_queue(queue_order, entry.origin)
               prior_entries ==
                   SelectSeq(bib_database,
                       LAMBDA x : /\ x.md_status \notin merge_ignore_status
                                  /\ x.origin \in Range(required_prior_entry_links))
               queued == [csv_files EXCEPT !.queue_order = queue_order]
               non_duplicate ==
                   [queued EXCEPT !.non_duplicates =
                       WithRow(@, <<"ID">>, <<entry.ID>>)]
           IN  IF Len(required_prior_entry_links) < 2 \/ prior_entries = <<>>
               THEN csv_files' = non_duplicate
               ELSE \E k \in DOMAIN prior_entries,
                       similarity \in {"low", "medium", "high"} :
                       LET citation_key == prior_entries[k].ID
                           entry_a == IF IndexOfID(bib_database, citation_key) < e
                                      THEN citation_key ELSE entry.ID
                           entry_b == IF entry_a = citation_key
                                      THEN entry.ID ELSE citation_key
                       IN  csv_files' =
                             CASE similarity = "low" -> non_duplicate
                               [] similarity = "medium" ->
                                    [queued EXCEPT !.potential_duplicate_tuples =
                                        WithRow(@, <<"ID1", "ID2", "max_similarity">>,
                                                <<entry_a, entry_b, "0.9">>)]
                               [] similarity = "high" ->
                                    [queued EXCEPT !.duplicate_tuples =
                                        WithRow(@, <<"ID1", "ID2">>,
                                                <<citation_key, entry.ID>>)]

\* pool.map returned, pool.close(), pool.join(); apply_merges; batch_end
\* is read from the counter; a batch that counted an entry is saved and
\* committed (the references file and potential_duplicate_tuples.csv); the
\* loop ends after a batch that was not full or when the commit found
\* nothing changed
Batch ==
    /\ dedupe.pc = "map"
    /\ \A e \in DOMAIN pool : pool[e].pc = "returned"
    /\ current_batch_counter.lock = 0
    /\ LET db == apply_merges(bib_database, csv_files)
           batch_end == current_batch_counter.value + dedupe.batch_start - 1
           in_process ==
               batch_end > 0 =>
                   \/ db # bib_database
                   \/ csv_files.potential_duplicate_tuples # dedupe.committed
       IN  /\ bib_database' = db
           /\ csv_files' = AfterApply(csv_files)
           /\ dedupe' = [dedupe EXCEPT
                           !.pc = IF batch_end < BATCH_SIZE \/ ~in_process
                                  THEN "done" ELSE "loop",
                           !.batch_end = batch_end,
                           !.batches = @ + 1,
                           !.before = bib_database]
    /\ UNCHANGED <<current_batch_counter, pool>>
    /\ DedupeFrame

DedupeNext ==
    \/ StartBatch
    \/ Call
    \/ GetLock
    \/ CountEntry
    \/ Classify
    \/ Batch

DedupeSpec == DedupeInit /\ [][DedupeNext]_vars

(***************************************************************************)
(* The merges and the batches of dedupe_entries.                           *)
(***************************************************************************)
\* the origin tokens of the entries
OriginsOf(entries) == UNION {entries[i].origin : i \in DOMAIN entries}

\* C31: after apply_merges applied a list of duplicate tuples, chains such
\* as (A,B) followed by (B,C) included, the union of the origin tokens of
\* the remaining entries equals the union before the call.
C31_AsStated ==
    dedupe.batches > 0 => OriginsOf(bib_database) = OriginsOf(dedupe.before)

\* the append_merges calls of the batch that counted their entry
Counted == {e \in DOMAIN pool : pool[e].counted}

\* C38: in every interleaving of the append_merges calls of a batch the
\* shared counter never exceeds BATCH_SIZE, at most BATCH_SIZE entries, all
\* of them prepared, are queued and classified, and an entry with another
\* status never increments the counter.
C38_BatchLimit ==
    /\ current_batch_counter.value <= BATCH_SIZE
    /\ Cardinality(Counted) <= BATCH_SIZE
    /\ \A e \in Counted : pool[e].md_status = "prepared"
    /\ dedupe.pc = "map" => current_batch_counter.value = Cardinality(Counted)

\* a full batch: BATCH_SIZE entries were counted, a further prepared entry
\* and an entry with another status returned without being counted
C38_Witness ==
    /\ dedupe.pc = "map"
    /\ current_batch_counter.value = BATCH_SIZE
    /\ \E e \in DOMAIN pool :
          /\ pool[e].md_status = "prepared"
          /\ pool[e].pc = "returned"
          /\ ~pool[e].counted
    /\ \E e \in DOMAIN pool :
          /\ pool[e].md_status # "prepared"
          /\ pool[e].pc = "returned"

(***************************************************************************)
(* Dataset.set_ids (colrev/dataset.py): the ids of the records are set     *)
(* from the ids that __create_temp_id gives, made unique against the ids   *)
(* of the other records.  A record is its ID, its status, its origin and   *)
(* whether its masterdata is curated; the records dict is the sequence of  *)
(* its values in the order of the keys.                                    *)
(***************************************************************************)
MaxSetIds == 3

RECURSIVE lower(_)
\* s.lower()
lower(s) ==
    IF s = "" THEN ""
    ELSE LET c == CharAt(s, 0)
             i == Find(UpperCase, c)
         IN  (IF i = -1 THEN c ELSE CharAt(LowerCase, i)) \o lower(SliceFrom(s, 1))

\* the k-th text of itertools.product(letters, repeat=1), then repeat=2:
\* a, b, ..., z, aa, ab, ...
Appends(k) ==
    IF k <= 26 THEN CharAt(LowerCase, k - 1)
    ELSE CharAt(LowerCase, (k - 27) \div 26) \o CharAt(LowerCase, (k - 27) % 26)

RECURSIVE NextUniqueID(_, _, _)
\* the while loop of __update_temp_id_based_on_id_blacklist: the temp_id,
\* or the temp_id with the first appended text that makes it differ, in
\* lower case, from every id of other_ids
NextUniqueID(temp_id, other_ids, k) ==
    LET next_unique_id == IF k = 0 THEN temp_id ELSE temp_id \o Appends(k)
    IN  IF \E i \in DOMAIN other_ids : lower(other_ids[i]) = lower(next_unique_id)
        THEN NextUniqueID(temp_id, other_ids, k + 1)
        ELSE next_unique_id

\* __update_temp_id_based_on_id_blacklist with record_in_bib_db: other_ids
\* is the blacklist itself, from which the id of the record is removed
\* once; the id and the blacklist as the call leaves it
update_temp_id_based_on_id_blacklist(record_dict, temp_id, id_blacklist) ==
    LET other_ids == IF record_dict.ID \in Range(id_blacklist)
                     THEN Remove1(id_blacklist, record_dict.ID)
                     ELSE id_blacklist
    IN  [temp_id |-> NextUniqueID(temp_id, other_ids, 0), id_blacklist |-> other_ids]

\* mutant: the temp_id is taken as it is
generate_id_blacklist_Unchecked(record_dict, temp_id, id_blacklist) ==
    [temp_id |-> temp_id, id_blacklist |-> id_blacklist]

\* __generate_id_blacklist with raise_error = False: the temp_id is left as
\* it is when the blacklist is empty
generate_id_blacklist(record_dict, temp_id, id_blacklist) ==
    IF id_blacklist # <<>>
    THEN update_temp_id_based_on_id_blacklist(record_dict, temp_id, id_blacklist)
    ELSE [temp_id |-> temp_id, id_blacklist |-> id_blacklist]

\* records[new_id] = record_dict; del records[old_id]
Rekeyed(recs, old_id, record_dict) ==
    LET set == IF \E i \in DOMAIN recs : recs[i].ID = record_dict.ID
               THEN [i \in DOMAIN recs |->
                        IF recs[i].ID = record_dict.ID THEN record_dict ELSE recs[i]]
               ELSE Append(recs, record_dict)
        k == CHOOSE i \in DOMAIN set : set[i].ID = old_id
    IN  [i \in 1..(Len(set) - 1) |-> IF i < k THEN set[i] ELSE set[i + 1]]

\* mutant: curated records are not passed over
PassedOver_StatusOnly(record_dict, selected_ids) ==
    IF selected_ids.given
    THEN record_dict.ID \notin selected_ids.ids
    ELSE record_dict.colrev_status \notin {"md_imported", "md_prepared"}

\* the record is passed over: its masterdata is curated, or it is not
\* among the selected ids, or, without selected ids, its status is neither
\* md_imported nor md_prepared
PassedOver(record_dict, selected_ids) ==
    \/ record_dict.curated
    \/ IF selected_ids.given
       THEN record_dict.ID \notin selected_ids.ids
       ELSE record_dict.colrev_status \notin {"md_imported", "md_prepared"}

\* the body of the loop of set_ids for the key record_id, with the temp_id
\* that __create_temp_id gives
SetIdsStep(c, record_id, temp_id) ==
    LET record_dict ==
            c.records[CHOOSE i \in DOMAIN c.records : c.records[i].ID = record_id]
        generated == generate_id_blacklist(record_dict, temp_id, c.id_list)
        new_id == generated.temp_id
        id_list == Append(generated.id_blacklist, new_id)
    IN  IF PassedOver(record_dict, c.selected_ids) THEN c
        ELSE IF record_id # new_id
        THEN [c EXCEPT
                !.records = Rekeyed(@, record_id, [record_dict EXCEPT !.ID = new_id]),
                !.id_list = IF record_id \in Range(id_list)
                            THEN Remove1(id_list, record_id) ELSE id_list,
                !.assigned = @ \cup {new_id}]
        ELSE [c EXCEPT !.id_list = id_list, !.assigned = @ \cup {new_id}]

\* the ids a record may have
SetIdsPool(i) ==
    CASE i = 1 -> {"Ab", "ab"}
      [] i = 2 -> {"AB", "Aba"}
      [] OTHER -> {"C" \o ToString(i), "aba" \o ToString(i)} \cup
                  (IF i = 3 THEN {"aba"} ELSE {})

\* the ids __create_temp_id may give: from the index or from the pattern
TempIDs == {"Ab", "aB", "C3"}

\* what set_ids leaves alone
SetIdsFrame ==
    UNCHANGED <<validation_vars, store_vars, repo_vars, prep_vars, dedupe_vars,
                feed_vars, local_index_vars>>

SetIdsInit ==
    /\ NoValidation /\ NoStoreFile /\ NoRepo /\ NoPrep
    /\ NoDedupe /\ NoFeed /\ NoRetrievals
    /\ \E id \in [1..MaxSetIds -> UNION {SetIdsPool(i) : i \in 1..MaxSetIds}],
          status \in [1..MaxSetIds -> {"md_imported", "md_prepared", "md_processed"}],
          curated \in [1..MaxSetIds -> BOOLEAN],
          selected_ids \in {[given |-> FALSE, ids |-> {}],
                            [given |-> TRUE, ids |-> {"Ab", "AB"}]} :
          /\ \A i \in 1..MaxSetIds : id[i] \in SetIdsPool(i)
          /\ set_ids_call =
                [pc |-> "called",
                 before |-> [i \in 1..MaxSetIds |->
                               [ID |-> id[i], colrev_status |-> status[i],
                                colrev_origin |-> "s.bib/" \o ToString(i),
                                curated |-> curated[i]]],
                 selected_ids |-> selected_ids,
                 records |-> <<>>, id_list |-> <<>>, keys |-> <<>>,
                 assigned |-> {}]

\* set_ids up to its loop: id_list and the keys to go through
SetIdsEnter ==
    /\ set_ids_call.pc = "called"
    /\ set_ids_call' =
          [set_ids_call EXCEPT
             !.pc = "loop",
             !.records = set_ids_call.before,
             !.id_list = [i \in DOMAIN set_ids_call.before |->
                             set_ids_call.before[i].ID],
             !.keys = [i \in DOMAIN set_ids_call.before |->
                          set_ids_call.before[i].ID]]
    /\ SetIdsFrame

\* one pass of the loop
SetIdsLoop ==
    /\ set_ids_call.pc = "loop"
    /\ set_ids_call.keys # <<>>
    /\ \E temp_id \in TempIDs :
          set_ids_call' =
              [SetIdsStep(set_ids_call, Head(set_ids_call.keys), temp_id)
                  EXCEPT !.keys = Tail(set_ids_call.keys)]
    /\ SetIdsFrame

\* after the loop: save_records_dict, add_record_changes, return records
SetIdsReturn ==
    /\ set_ids_call.pc = "loop"
    /\ set_ids_call.keys = <<>>
    /\ set_ids_call' = [set_ids_call EXCEPT !.pc = "returned"]
    /\ SetIdsFrame

SetIdsNext ==
    \/ SetIdsEnter
    \/ SetIdsLoop
    \/ SetIdsReturn

SetIdsSpec == SetIdsInit /\ [][SetIdsNext]_vars

(***************************************************************************)
(* The ids that set_ids assigns.                                           *)
(***************************************************************************)
\* the record of the map that came from the origin
FromOrigin(recs, origin) ==
    {i \in DOMAIN recs : recs[i].colrev_origin = origin}

\* C32: set_ids never loses or overwrites a record: whatever ids the id
\* generation gives, the map has as many records as the input, one from
\* each origin, and every id assigned differs, case-insensitively, from the
\* ids of all other records of the map.
C32_NoRecordLost ==
    set_ids_call.pc \in {"loop", "returned"} =>
        LET recs == set_ids_call.records
        IN  /\ Len(recs) = Len(set_ids_call.before)
            /\ \A b \in DOMAIN set_ids_call.before :
                  Cardinality(FromOrigin(recs, set_ids_call.before[b].colrev_origin)) = 1
            /\ \A i, j \in DOMAIN recs :
                  /\ i # j
                  /\ recs[i].ID \in set_ids_call.assigned
                  => lower(recs[i].ID) # lower(recs[j].ID)

\* set_ids returned after a collision was resolved by an appended letter
\* and another record was renamed to the id the generation gave
C32_Witness ==
    /\ set_ids_call.pc = "returned"
    /\ \E i, j \in DOMAIN set_ids_call.records :
          /\ i # j
          /\ set_ids_call.records[i].ID \in {t \o "a" : t \in TempIDs}
          /\ set_ids_call.records[i].ID \notin Range(
                [k \in DOMAIN set_ids_call.before |-> set_ids_call.before[k].ID])
          /\ set_ids_call.records[j].ID \in TempIDs
          /\ set_ids_call.before[1].ID # set_ids_call.records[j].ID
          /\ set_ids_call.records[j].colrev_origin = "s.bib/1"

\* C33: set_ids without selected_ids changes the id only of records that
\* are md_imported or md_prepared and not curated: every record at another
\* status and every curated record has the id it had before the call.
C33_OthersKeepID ==
    /\ set_ids_call.pc \in {"loop", "returned"}
    /\ ~set_ids_call.selected_ids.given
    => \A b \in DOMAIN set_ids_call.before :
          LET r == set_ids_call.before[b]
          IN  \/ r.curated
              \/ r.colrev_status \notin {"md_imported", "md_prepared"}
              => \E i \in DOMAIN set_ids_call.records :
                    /\ set_ids_call.records[i].colrev_origin = r.colrev_origin
                    /\ set_ids_call.records[i].ID = r.ID

\* set_ids without selected_ids returned: it renamed an imported record,
\* and passed over a curated imported record and a processed record whose
\* ids differ from what the generation would give
C33_Witness ==
    /\ set_ids_call.pc = "returned"
    /\ ~set_ids_call.selected_ids.given
    /\ \E a, b, c \in DOMAIN set_ids_call.before :
          /\ set_ids_call.before[a].colrev_status = "md_imported"
          /\ ~set_ids_call.before[a].curated
          /\ \E i \in DOMAIN set_ids_call.records :
                /\ set_ids_call.records[i].colrev_origin =
                      set_ids_call.before[a].colrev_origin
                /\ set_ids_call.records[i].ID # set_ids_call.before[a].ID
          /\ set_ids_call.before[b].colrev_status = "md_imported"
          /\ set_ids_call.before[b].curated
          /\ set_ids_call.before[c].colrev_status = "md_processed"
          /\ ~set_ids_call.before[c].curated
          /\ lower(set_ids_call.before[b].ID) \notin {lower(t) : t \in TempIDs}

(***************************************************************************)
(* A prep round that resumes an interrupted run.                           *)
(***************************************************************************)
\* _create_prep_commit of a round has just returned
JustCompleted == main.pc = "post" \/ (main.pc = "round" /\ main.round > 1)

\* the round that has just completed
CompletedRound == IF main.pc = "post" THEN main.round ELSE main.round - 1

\* the ids of the records of temp_recs.bib
BufferedIDs == {temp_records[j].ID : j \in DOMAIN temp_records}

\* no record of the temporary files is prepared again in the round
NotPreparedAgain ==
    InRound => \A w \in DOMAIN workers : PrepID(w) \notin BufferedIDs

\* the round saved a set of records in which every record that was to be
\* prepared appears exactly once
SavedOnce ==
    /\ saves # <<>>
    /\ LET save == saves[Len(saves)]
       IN  /\ save.phase = "prep_commit"
           /\ save.round = CompletedRound
           /\ \A i \in main.to_prepare :
                 Cardinality({j \in DOMAIN save.records :
                                 save.records[j].ID = PrepID(i)}) = 1

\* C34: in a round that resumes an interrupted run the records of the
\* temporary files are not prepared again; when the round completes, every
\* record that was to be prepared appears exactly once in the set saved to
\* the store, and both temporary files no longer exist.
C34_AsStated ==
    /\ NotPreparedAgain
    /\ JustCompleted =>
          /\ SavedOnce
          /\ temp_records = <<>>
          /\ current_temp_records = <<>>

\* the requested ids for which the file holds no entry with a field named key
NotFound(text, ids, key) ==
    SelectSeq(ids, LAMBDA id : TargetLines(Lines(text), <<id>>, key) = {})

\* C37: on return from replace_field the list passed as ids holds exactly
\* the requested ids for which no entry with a field named key was found
\* (it is empty if and only if every requested id was patched), and once
\* the list is empty no line after the last patched field is read or
\* written: the lines after it are those of the file before the call.
C37_AsStated ==
    Done("replace_field") =>
        LET old == Lines(before)
            now == Lines(disk)
            targets == TargetLines(old, entered.ids, entered.key)
        IN  /\ call.ids = NotFound(before, entered.ids, entered.key)
            /\ call.ids = <<>> =>
                  /\ Len(now) = Len(old)
                  /\ \A k \in DOMAIN old :
                        (\A t \in targets : k > t) => now[k] = old[k]

\* ------------------------------------------ two replacements, one after the
\* other: update_record_by_id called twice by one process on the saved file
ReplaceInit == PatchInit

\* update_record_by_id(new_record) from its entry to its return
Replaced(new_record) ==
    LET c == update_record_by_id(disk, new_record, FALSE)
        s == Run(disk, c)
    IN  /\ disk' = s.disk
        /\ call' = s.call
        /\ calls' = calls + 1
        /\ UNCHANGED records
        /\ UNCHANGED <<validation_vars, repo_vars, prep_vars, ops_vars>>

\* the first call: the text of the file before it and the call are kept
FirstUpdate ==
    /\ disk # ""
    /\ calls = 0
    /\ \E new_record \in NewRecords :
          /\ Replaced(new_record)
          /\ entered' = update_record_by_id(disk, new_record, FALSE)
    /\ before' = disk

\* the second call, on the file the first one left
SecondUpdate ==
    /\ calls = 1
    /\ \E new_record \in NewRecords : Replaced(new_record)
    /\ UNCHANGED <<before, entered>>

ReplaceNext ==
    \/ SaveRecordsDict
    \/ FirstUpdate
    \/ SecondUpdate

ReplaceSpec == ReplaceInit /\ [][ReplaceNext]_vars

\* the call c made again, on the file f
Again(f, c) ==
    Opened(f, [NoCall EXCEPT !.fn = c.fn, !.new_id = c.new_id,
                             !.delete = c.delete,
                             !.replacement = c.replacement])

\* the file that the two calls leave when the second is made first
OppositeOrder == Run(Run(before, Again(before, call)).disk,
                     Again(Run(before, Again(before, call)).disk, entered)).disk

\* two calls returned, for distinct ids that the file both held
BothReplaced ==
    /\ calls = 2
    /\ entered.new_id # call.new_id
    /\ {entered.new_id, call.new_id} \subseteq Range(IDSeq(before))

\* C36: for two records with distinct ids both present in the file,
\* update_record_by_id for the first and then for the second leaves the same
\* bytes in the file as the two calls made in the opposite order.
C36_Commute == BothReplaced => disk = OppositeOrder

\* both calls rewrote their entry, with texts of different lengths, in a file
\* of three entries
C36_Witness ==
    /\ BothReplaced
    /\ Len(IDSeq(before)) = 3
    /\ Len(entered.replacement) # Len(call.replacement)
    /\ "read_tail" \in Range(call.log)
    /\ disk # before
    /\ disk = OppositeOrder

\* ------------------------------------------------------------ search feed
\* SearchAPIFeed: the records of a feed file keyed by feed id, the ids given
\* to the source identifiers, and the main records that a feed update edits.
\* A record dict is its items in dict order as <<key, value>> pairs.
MaxFeedCalls == 2

\* colrev.constants: FieldSet.PROVENANCE_KEYS, FieldSet.TIME_VARIANT_FIELDS
PROVENANCE_KEYS ==
    <<"colrev_masterdata_provenance", "colrev_data_provenance",
      "colrev_origin", "colrev_status", "colrev_pdf_id">>

TIME_VARIANT_FIELDS == <<"cited_by">>

\* data.get(key, default)
GetOr(data, key, fallback) ==
    IF key \in Keys(data) THEN Get(data, key) ELSE fallback

\* del data[key]
Del(data, key) == SelectSeq(data, LAMBDA item : item[1] # key)

Digits == {"0", "1", "2", "3", "4", "5", "6", "7", "8", "9"}

\* s.isdigit()
isdigit(s) == s # "" /\ \A i \in 0..(Len(s) - 1) : CharAt(s, i) \in Digits

RECURSIVE int(_)
\* int(s), for a string of digits
int(s) ==
    IF s = "" THEN 0
    ELSE 10 * int(Slice(s, 0, Len(s) - 1))
         + (CHOOSE d \in 0..9 : ToString(d) = CharAt(s, Len(s) - 1))

RECURSIVE rjust(_, _, _)
\* s.rjust(width, fillchar)
rjust(s, width, fillchar) ==
    IF Len(s) >= width THEN s ELSE rjust(fillchar \o s, width, fillchar)

\* mutant of max_id: the count starts at 1 whatever the feed file holds
max_id_FromOne(feed_records) == 1

\* _load_feed: max([int(ID) of the records whose ID is digits] + [1]) + 1
max_id(feed_records) ==
    LET ints == {int(feed_records[i][1]) :
                    i \in {j \in DOMAIN feed_records : isdigit(feed_records[j][1])}}
                \cup {1}
    IN  (CHOOSE m \in ints : \A n \in ints : n <= m) + 1

RECURSIVE AvailableIDs(_, _)
\* _load_feed: {x[source_identifier]: x["ID"] for x in feed_records.values()
\* if source_identifier in x}
AvailableIDs(record_dicts, source_identifier) ==
    IF record_dicts = <<>> THEN <<>>
    ELSE LET x == record_dicts[Len(record_dicts)]
             front == AvailableIDs(SubSeq(record_dicts, 1, Len(record_dicts) - 1),
                                   source_identifier)
         IN  IF source_identifier \in Keys(x)
             THEN SetField(front, Get(x, source_identifier), Get(x, "ID"))
             ELSE front

\* _load_feed
load_feed(fd, file) ==
    IF ~file.is_file
    THEN [fd EXCEPT !.available_ids = <<>>, !.max_id = 1, !.feed_records = <<>>]
    ELSE LET loaded == [i \in DOMAIN file.records |->
                           <<Get(file.records[i], "ID"), file.records[i]>>]
         IN  [fd EXCEPT !.feed_records = loaded,
                        !.available_ids =
                            AvailableIDs(file.records, fd.source_identifier),
                        !.max_id = max_id(loaded)]

\* _set_id, for a record that carries the source identifier
set_id(fd, record) ==
    LET identifier == Get(record, fd.source_identifier)
    IN  IF identifier \in Keys(fd.available_ids)
        THEN SetField(record, "ID", Get(fd.available_ids, identifier))
        ELSE SetField(record, "ID", rjust(ToString(fd.max_id), 6, "0"))

\* _get_prev_feed_record, after _set_id: the feed record of the id, or {}
get_prev_feed_record(fd, record) ==
    GetOr(fd.feed_records, Get(record, "ID"), <<>>)

\* _forthcoming_published
forthcoming_published(record, prev_record) ==
    IF Get(record, "ENTRYTYPE") # "article" THEN FALSE
    ELSE IF "year" \notin Keys(record) \/ "year" \notin Keys(prev_record)
    THEN FALSE
    ELSE IF Get(prev_record, "year") = "forthcoming"
            /\ Get(record, "year") # "forthcoming"
    THEN TRUE
    ELSE /\ GetOr(record, "volume", "UNKNOWN") # "UNKNOWN"
         /\ GetOr(prev_record, "volume", "UNKNOWN") = "UNKNOWN"
         /\ GetOr(record, "number", "UNKNOWN") # "UNKNOWN"

RECURSIVE DelAll(_, _)
\* for key in keys: if key in data: del data[key]
DelAll(data, keys) ==
    IF keys = <<>> THEN data ELSE DelAll(Del(data, Head(keys)), Tail(keys))

RECURSIVE KeepTimeVariant(_, _, _)
\* update_only: the time-variant fields keep the value of the feed record
\* frid, and are dropped when it has none
KeepTimeVariant(fd, feed_record_dict, keys) ==
    IF keys = <<>> THEN feed_record_dict
    ELSE LET key == Head(keys)
             frid == Get(feed_record_dict, "ID")
             kept == IF frid \notin Keys(fd.feed_records) THEN feed_record_dict
                     ELSE IF key \in Keys(Get(fd.feed_records, frid))
                     THEN SetField(feed_record_dict, key,
                                   Get(Get(fd.feed_records, frid), key))
                     ELSE Del(feed_record_dict, key)
         IN  KeepTimeVariant(fd, kept, Tail(keys))

\* _add_record_to_feed: the feed after it, its result, the record with its id
\* and the previous feed record, whose year _update_record_forthcoming sets
add_record_to_feed(fd, record, prev_feed_record) ==
    LET rec == set_id(fd, record)
        identifier == Get(rec, fd.source_identifier)
        added_new == identifier \notin Keys(fd.available_ids)
        feed_record_dict == DelAll(rec, PROVENANCE_KEYS)
        frid == Get(feed_record_dict, "ID")
        stored == IF fd.update_only
                  THEN KeepTimeVariant(fd, feed_record_dict, TIME_VARIANT_FIELDS)
                  ELSE feed_record_dict
    IN  [feed |-> [fd EXCEPT !.max_id = IF added_new THEN @ + 1 ELSE @,
                             !.available_ids = SetField(@, identifier, frid),
                             !.feed_records = SetField(@, frid, stored)],
         added_new |-> added_new,
         record |-> rec,
         prev_feed_record |->
             IF forthcoming_published(rec, prev_feed_record)
             THEN SetField(prev_feed_record, "year", Get(rec, "year"))
             ELSE prev_feed_record]

\* colrev.constants: FieldSet.IDENTIFYING_FIELD_KEYS
IDENTIFYING_FIELD_KEYS ==
    {"title", "author", "year", "journal", "booktitle", "chapter",
     "publisher", "volume", "number", "pages", "editor", "institution"}

\* the provenance dict that holds the entry of a field
ProvenanceOf(key) ==
    IF key \in IDENTIFYING_FIELD_KEYS THEN "colrev_masterdata_provenance"
    ELSE "colrev_data_provenance"

\* the provenance dict with the entry of key set to the source
WithSource(provenance, key, source) ==
    IF \E i \in DOMAIN provenance : provenance[i].key = key
    THEN [i \in DOMAIN provenance |->
             IF provenance[i].key = key THEN Prov(key, source, "")
             ELSE provenance[i]]
    ELSE Append(provenance, Prov(key, source, ""))

\* Record.update_field(key, value, source, keep_source_if_equal=True,
\* append_edit=False)
update_field(data, key, value, source) ==
    IF key \in Keys(data) /\ Get(data, key) = value THEN data
    ELSE SetField(SetField(data, ProvenanceOf(key),
                           WithSource(GetOr(data, ProvenanceOf(key), <<>>),
                                      key, source)),
                  key, value)

\* Record.masterdata_is_curated
masterdata_is_curated(data) ==
    \E p \in Range(GetOr(data, "colrev_masterdata_provenance", <<>>)) :
        p.key = "CURATED"

\* _missing_ignored_field
missing_ignored_field(main_record, key) ==
    \E p \in Range(GetOr(main_record, "colrev_masterdata_provenance", <<>>)) :
        /\ p.key = key
        /\ p.source = "colrev_curation.masterdata_restrictions"
        /\ Find(p.note, "IGNORE:missing") # -1

RECURSIVE update_record_fields(_, _, _, _, _)
\* _update_record_fields, over the items of the record that are left
update_record_fields(fd, items, main_record, prev_feed_record, origin) ==
    IF items = <<>> THEN main_record
    ELSE LET key == Head(items)[1]
             value == Head(items)[2]
             updated == update_field(main_record, key, value, origin)
             next ==
                 IF ~fd.update_time_variant_fields
                    /\ key \in Range(TIME_VARIANT_FIELDS)
                 THEN main_record
                 ELSE IF key \in Range(PROVENANCE_KEYS) \cup {"ID", "curation_ID"}
                 THEN main_record
                 ELSE IF key \notin Keys(main_record)
                 THEN IF missing_ignored_field(main_record, key)
                      THEN main_record ELSE updated
                 ELSE IF fd.origin_prefix # "md_curated.bib"
                         /\ GetOr(prev_feed_record, key, "NA")
                            # GetOr(main_record, key, "OTHER")
                 THEN main_record
                 ELSE IF replace(value, " - ", ": ")
                         = replace(Get(main_record, key), " - ", ": ")
                 THEN main_record
                 ELSE IF key = "url" /\ Find(value, "dblp.org") # -1
                 THEN main_record
                 ELSE updated
         IN  update_record_fields(fd, Tail(items), next, prev_feed_record, origin)

\* Record.add_provenance_all(source): every field gets the source
add_provenance_all(data, source) ==
    LET named(dict) ==
            SelectSeq([i \in DOMAIN data |-> Prov(data[i][1], source, "")],
                      LAMBDA p : /\ p.key \notin Range(PROVENANCE_KEYS)
                                              \cup {"ID", "ENTRYTYPE"}
                                 /\ ProvenanceOf(p.key) = dict)
    IN  SetField(SetField(data, "colrev_masterdata_provenance",
                          named("colrev_masterdata_provenance")),
                 "colrev_data_provenance", named("colrev_data_provenance"))

\* _get_main_record: the index of the first main record that holds the
\* origin, 0 for RecordNotFoundException
get_main_record(fd, origin) ==
    LET hits == {i \in DOMAIN fd.records :
                    origin \in Range(Get(fd.records[i], "colrev_origin"))}
    IN  IF hits = {} THEN 0 ELSE Min(hits)

\* the record as _update_record hands it to _update_record_fields
WithOrigin(fd, retrieved_record) ==
    LET colrev_origin == Link(fd.origin_prefix, Get(retrieved_record, "ID"))
    IN  add_provenance_all(
            SetField(retrieved_record, "colrev_origin", <<colrev_origin>>),
            colrev_origin)

\* _update_record, for a record that is not retracted and whose keys are
\* standardized: the main records after it
update_record(fd, retrieved_record, prev_feed_record) ==
    LET colrev_origin == Link(fd.origin_prefix, Get(retrieved_record, "ID"))
        m == get_main_record(fd, colrev_origin)
    IN  IF m = 0 THEN fd.records
        ELSE IF masterdata_is_curated(fd.records[m])
                /\ fd.origin_prefix # "md_curated.bib"
        THEN fd.records
        ELSE [fd.records EXCEPT ![m] =
                 update_record_fields(fd, WithOrigin(fd, retrieved_record),
                                      fd.records[m], prev_feed_record,
                                      colrev_origin)]

\* a record of the feed file
FeedRecord(id, items) == <<<<"ID", id>>, <<"ENTRYTYPE", "article">>>> \o items

\* the feed files: none; a padded id and a record without the source
\* identifier; an id that is not digits, with a forthcoming year, and a
\* short id of a record without title
FeedFiles ==
    { [is_file |-> FALSE, records |-> <<>>],
      [is_file |-> TRUE,
       records |-> << FeedRecord("000001", << <<"doi", "d1">>, <<"title", "a">>,
                                               <<"cited_by", "1">> >>),
                      FeedRecord("000002", << <<"title", "z">> >>) >>],
      [is_file |-> TRUE,
       records |-> << FeedRecord("abc", << <<"doi", "d1">>, <<"title", "a">>,
                                            <<"year", "forthcoming">> >>),
                      FeedRecord("7", << <<"doi", "d2">> >>) >>] }

\* the records retrieved: of a known or new identifier, with the title of
\* the feed record or another one, with a title that differs by " - ",
\* with time-variant, provenance and curation fields, without identifier
RetrievedRecords ==
    { <<<<"ID", "x">>, <<"ENTRYTYPE", "article">>, <<"doi", d>>,
        <<"title", t>>, <<"year", "2020">>>> :
          d \in {"d1", "d2", "d3"}, t \in {"a", "b"} }
    \cup { <<<<"ID", "x">>, <<"ENTRYTYPE", "article">>, <<"doi", "d1">>,
             <<"title", "e: f">>, <<"cited_by", "5">>,
             <<"curation_ID", "c/1">>, <<"colrev_status", "md_imported">>,
             <<"url", "https://dblp.org/x">>>>,
           <<<<"ID", "x">>, <<"ENTRYTYPE", "article">>, <<"title", "a">>>> }

\* a main record of the origin prefix/id
MainRecord(id, prefix, search_id, items) ==
    <<<<"ID", id>>, <<"ENTRYTYPE", "article">>,
      <<"colrev_origin", <<Link(prefix, search_id)>>>>,
      <<"colrev_status", "md_prepared">>>> \o items

\* the main records: one as imported whose missing year is to be ignored,
\* one whose title was edited after import, one whose title is "NA", one
\* that is curated
MainRecords(prefix) ==
    << MainRecord("R1", prefix, "000001",
                  << <<"title", "a">>, <<"cited_by", "1">>,
                     <<"colrev_masterdata_provenance",
                       <<Prov("year", "colrev_curation.masterdata_restrictions",
                              "IGNORE:missing")>> >> >>),
       MainRecord("R2", prefix, "abc",
                  << <<"title", "e - f">>, <<"year", "forthcoming">>,
                     <<"url", "u">> >>),
       MainRecord("R3", prefix, "7", << <<"title", "NA">> >>),
       MainRecord("R4", prefix, "000003",
                  << <<"title", "a">>,
                     <<"colrev_masterdata_provenance",
                       <<Prov("CURATED", "url", "")>> >> >>) >>

FeedFrame ==
    UNCHANGED <<validation_vars, store_vars, repo_vars, prep_vars,
                dedupe_vars, set_ids_call, local_index_vars>>

FeedInit ==
    /\ NoValidation
    /\ NoStoreFile
    /\ NoRepo
    /\ NoPrep
    /\ NoDedupe
    /\ NoSetIds
    /\ NoRetrievals
    /\ feed_file \in FeedFiles
    /\ feed = NoFeedObject
    /\ feed_call = NoFeedCall

\* SearchAPIFeed(...): the feed file is loaded, and the main records unless
\* in prep mode
Construct ==
    /\ feed.pc \in {"none", "saved"}
    /\ \E prefix \in {"md_crossref.bib", "md_curated.bib"},
          update_only \in BOOLEAN, update_time_variant_fields \in BOOLEAN,
          prep_mode \in BOOLEAN :
          /\ feed.pc = "saved" =>
                /\ prefix = feed.origin_prefix
                /\ prep_mode = feed.prep_mode
          /\ feed' = load_feed(
                 [NoFeedObject EXCEPT
                     !.pc = "loaded", !.source_identifier = "doi",
                     !.origin_prefix = prefix, !.update_only = update_only,
                     !.update_time_variant_fields = update_time_variant_fields,
                     !.prep_mode = prep_mode,
                     !.records = IF prep_mode THEN <<>>
                                 ELSE IF feed.pc = "saved" THEN feed.saved
                                 ELSE MainRecords(prefix),
                     !.saved = IF feed.pc = "saved" THEN feed.saved
                               ELSE MainRecords(prefix),
                     !.calls = feed.calls],
                 feed_file)
    /\ feed_call' = NoFeedCall
    /\ UNCHANGED feed_file
    /\ FeedFrame

\* add_update_record(retrieved_record)
AddUpdateRecord ==
    /\ feed.pc = "loaded"
    /\ feed.calls < MaxFeedCalls
    /\ \E retrieved_record \in RetrievedRecords :
          LET counted == [feed EXCEPT !.calls = @ + 1]
              called == [fn |-> "add_update_record", record |-> retrieved_record,
                         prev_feed_record |-> <<>>, entered |-> feed,
                         returned |-> "NotFeedIdentifiableException"]
          IN  IF feed.source_identifier \notin Keys(retrieved_record)
              THEN /\ feed' = counted
                   /\ feed_call' = called
              ELSE LET prev == get_prev_feed_record(
                                   feed, set_id(feed, retrieved_record))
                       added == add_record_to_feed(counted, retrieved_record, prev)
                   IN  /\ feed' =
                             IF feed.prep_mode THEN added.feed
                             ELSE [added.feed EXCEPT !.records =
                                      update_record(added.feed, added.record,
                                                    added.prev_feed_record)]
                       /\ feed_call' =
                             [called EXCEPT
                                 !.prev_feed_record = prev,
                                 !.returned = IF added.added_new THEN "True"
                                              ELSE "False"]
    /\ UNCHANGED feed_file
    /\ FeedFrame

\* save(): the feed records are written to the feed file if there are any,
\* and the main records are saved unless in prep mode
SaveFeed ==
    /\ feed.pc = "loaded"
    /\ feed_file' =
          IF Len(feed.feed_records) > 0
          THEN [is_file |-> TRUE,
                records |-> [i \in DOMAIN feed.feed_records |->
                                feed.feed_records[i][2]]]
          ELSE feed_file
    /\ feed' = [feed EXCEPT !.pc = "saved",
                            !.saved = IF feed.prep_mode THEN @ ELSE feed.records]
    /\ feed_call' = NoFeedCall
    /\ FeedFrame

FeedNext ==
    \/ Construct
    \/ AddUpdateRecord
    \/ SaveFeed

FeedSpec == FeedInit /\ [][FeedNext]_vars

\* ------------------------------------------------- properties of the feed
\* add_update_record returned or raised, and nothing ran since
Added == feed_call.fn = "add_update_record"

\* the source identifier of the record of the call
Identifier == Get(feed_call.record, feed.source_identifier)

\* the record of the call carries the source identifier
Identifiable == feed.source_identifier \in Keys(feed_call.record)

\* the identifier of the record was known when the call was entered
Known == Identifier \in Keys(feed_call.entered.available_ids)

\* the feed id that the call gave to its record
AssignedID == Get(feed.available_ids, Identifier)

\* C39: after add_update_record, a record whose source identifier was known
\* has the feed id the identifier had, a record with a new identifier has
\* the zero-padded running maximum, which no feed record had and which is
\* above every numeric feed id, the call returned True exactly for a new
\* identifier, every other identifier keeps its id, and a record without
\* the source identifier was rejected with NotFeedIdentifiableException,
\* the feed left as it was.
C39_FeedIds ==
    Added =>
        LET was == feed_call.entered
        IN  IF ~Identifiable
            THEN /\ feed_call.returned = "NotFeedIdentifiableException"
                 /\ feed = [was EXCEPT !.calls = @ + 1]
            ELSE /\ feed_call.returned = (IF Known THEN "False" ELSE "True")
                 /\ Known => AssignedID = Get(was.available_ids, Identifier)
                 /\ ~Known =>
                       /\ AssignedID = rjust(ToString(was.max_id), 6, "0")
                       /\ AssignedID \notin Keys(was.feed_records)
                       /\ \A id \in Keys(was.feed_records) :
                             isdigit(id) => int(id) < int(AssignedID)
                       /\ \A k \in Keys(was.available_ids) :
                             Get(was.available_ids, k) # AssignedID
                 /\ \A k \in Keys(was.available_ids) :
                       k # Identifier =>
                           Get(feed.available_ids, k) = Get(was.available_ids, k)
                 /\ Get(Get(feed.feed_records, AssignedID), "ID") = AssignedID
                 /\ Get(Get(feed.feed_records, AssignedID),
                        feed.source_identifier) = Identifier

\* the second of two calls with new identifiers, on a feed loaded from a
\* file that held the ids 000001 and 000002: the ids given are 000003 and
\* 000004
C39_Witness ==
    /\ Added
    /\ Identifiable
    /\ feed_call.returned = "True"
    /\ feed.calls = 2
    /\ AssignedID = "000004"
    /\ Keys(feed_call.entered.feed_records) = {"000001", "000002", "000003"}

\* the call updated the main records from a source other than md_curated.bib
UpdatedFromFeed ==
    /\ Added
    /\ Identifiable
    /\ ~feed.prep_mode
    /\ feed.origin_prefix # "md_curated.bib"

\* the fields of main record m that the call changed
ChangedFields(m) ==
    {key \in Keys(feed_call.entered.records[m]) \ Range(PROVENANCE_KEYS) :
        Get(feed.records[m], key) # Get(feed_call.entered.records[m], key)}

\* C40: a feed update from a source other than md_curated.bib changes an
\* existing field of a main record only if the value the main record had
\* equals the value of the field in the previous feed record, and the ID,
\* origin, status, pdf-id and curation-id of the main record are as before.
C40_AsStated ==
    UpdatedFromFeed =>
        \A m \in DOMAIN feed.records :
            LET old == feed_call.entered.records[m]
                new == feed.records[m]
            IN  /\ \A key \in ChangedFields(m) :
                      /\ key \in Keys(feed_call.prev_feed_record)
                      /\ Get(feed_call.prev_feed_record, key) = Get(old, key)
                /\ \A key \in {"ID", "colrev_origin", "colrev_status",
                               "colrev_pdf_id", "curation_ID"} :
                      /\ key \in Keys(new) <=> key \in Keys(old)
                      /\ key \in Keys(old) => Get(new, key) = Get(old, key)

\* ------------------------------------------------------ local-index feed
\* _store_retrieved_record_in_feed, called by the processes of a prep round,
\* each for the record it retrieved; the feed object it reloads is the
\* SearchAPIFeed of the source, keyed by curation_ID
MaxRetrievals == 2

Retrievers == 1..MaxRetrievals

NoRetrieval ==
    [pc |-> "idle", retrieved_record |-> <<>>, acquired |-> FALSE,
     local_index_feed |-> NoFeedObject, raised |-> "none"]

\* the records retrieved from the index: of two curation ids, and one
\* without curation id
IndexRecords ==
    { <<<<"ID", "x">>, <<"ENTRYTYPE", "article">>, <<"curation_ID", c>>,
        <<"title", "a">>>> : c \in {"c/1", "c/2"} }
    \cup { <<<<"ID", "x">>, <<"ENTRYTYPE", "article">>, <<"title", "a">>>> }

\* the feed file of the source: none yet, or one record with a short id
IndexFeedFiles ==
    { [is_file |-> FALSE, records |-> <<>>],
      [is_file |-> TRUE,
       records |-> << FeedRecord("7", << <<"curation_ID", "c/1">>,
                                          <<"title", "a">> >>) >>] }

LocalIndexFrame ==
    UNCHANGED <<validation_vars, store_vars, repo_vars, prep_vars,
                dedupe_vars, set_ids_call, feed, feed_call>>

LocalIndexInit ==
    /\ NoValidation
    /\ NoStoreFile
    /\ NoRepo
    /\ NoPrep
    /\ NoDedupe
    /\ NoSetIds
    /\ feed = NoFeedObject
    /\ feed_call = NoFeedCall
    /\ feed_file \in IndexFeedFiles
    /\ local_index_lock = 0
    /\ retrievals = [w \in Retrievers |-> NoRetrieval]

\* a process enters _store_retrieved_record_in_feed with its record
StoreRetrievedRecordInFeed(w) ==
    /\ retrievals[w].pc = "idle"
    /\ \E retrieved_record \in IndexRecords :
          retrievals' = [retrievals EXCEPT ![w] =
              [NoRetrieval EXCEPT !.pc = "acquire",
                                  !.retrieved_record = retrieved_record]]
    /\ UNCHANGED <<feed_file, local_index_lock>>
    /\ LocalIndexFrame

\* local_index_lock.acquire(timeout=60) returns True
AcquireLocalIndexLock(w) ==
    /\ retrievals[w].pc = "acquire"
    /\ local_index_lock = 0
    /\ local_index_lock' = w
    /\ retrievals' = [retrievals EXCEPT ![w].pc = "get_feed",
                                        ![w].acquired = TRUE]
    /\ UNCHANGED feed_file
    /\ LocalIndexFrame

\* local_index_lock.acquire(timeout=60) returns False after 60 seconds in
\* which another process held the lock: the result is not looked at
AcquireTimesOut(w) ==
    /\ retrievals[w].pc = "acquire"
    /\ local_index_lock \notin {0, w}
    /\ retrievals' = [retrievals EXCEPT ![w].pc = "get_feed"]
    /\ UNCHANGED <<feed_file, local_index_lock>>
    /\ LocalIndexFrame

\* search_source.get_feed(...): the feed file is loaded again
GetFeed(w) ==
    /\ retrievals[w].pc = "get_feed"
    /\ retrievals' = [retrievals EXCEPT
          ![w].pc = "set_id",
          ![w].local_index_feed =
              load_feed([NoFeedObject EXCEPT
                            !.pc = "loaded",
                            !.source_identifier = "curation_ID",
                            !.origin_prefix = "local_index.bib",
                            !.prep_mode = TRUE],
                        feed_file)]
    /\ UNCHANGED <<feed_file, local_index_lock>>
    /\ LocalIndexFrame

\* set_id and add_record: the record gets its feed id and is added to the
\* feed, or NotFeedIdentifiableException is raised
SetIdAddRecord(w) ==
    /\ retrievals[w].pc = "set_id"
    /\ LET r == retrievals[w]
           fd == r.local_index_feed
       IN  IF fd.source_identifier \notin Keys(r.retrieved_record)
           THEN retrievals' = [retrievals EXCEPT
                    ![w].pc = "finally",
                    ![w].raised = "NotFeedIdentifiableException"]
           ELSE LET added == add_record_to_feed(fd, r.retrieved_record, <<>>)
                IN  retrievals' = [retrievals EXCEPT
                        ![w].pc = "merge",
                        ![w].local_index_feed = added.feed,
                        ![w].retrieved_record = added.record]
    /\ UNCHANGED <<feed_file, local_index_lock>>
    /\ LocalIndexFrame

\* record.merge(...) and what follows up to the save
MergeRecord(w) ==
    /\ retrievals[w].pc = "merge"
    /\ retrievals' = [retrievals EXCEPT ![w].pc = "save"]
    /\ UNCHANGED <<feed_file, local_index_lock>>
    /\ LocalIndexFrame

\* record.merge(...) raises InvalidMerge
InvalidMerge(w) ==
    /\ retrievals[w].pc = "merge"
    /\ retrievals' = [retrievals EXCEPT ![w].pc = "finally",
                                        ![w].raised = "InvalidMerge"]
    /\ UNCHANGED <<feed_file, local_index_lock>>
    /\ LocalIndexFrame

\* local_index_feed.save_feed_file() writes the feed file
SaveFeedFile(w) ==
    /\ retrievals[w].pc = "save"
    /\ feed_file' =
          [is_file |-> TRUE,
           records |-> [i \in DOMAIN retrievals[w].local_index_feed.feed_records |->
                           retrievals[w].local_index_feed.feed_records[i][2]]]
    /\ retrievals' = [retrievals EXCEPT ![w].pc = "finally"]
    /\ UNCHANGED local_index_lock
    /\ LocalIndexFrame

\* local_index_feed.save_feed_file() raises OSError: pass
SaveFeedFileFails(w) ==
    /\ retrievals[w].pc = "save"
    /\ retrievals' = [retrievals EXCEPT ![w].pc = "finally"]
    /\ UNCHANGED <<feed_file, local_index_lock>>
    /\ LocalIndexFrame

\* finally: local_index_lock.release(), whoever holds the lock; releasing
\* an unlocked lock raises ValueError
ReleaseLocalIndexLock(w) ==
    /\ retrievals[w].pc = "finally"
    /\ local_index_lock' = 0
    /\ retrievals' = [retrievals EXCEPT
          ![w].pc = "done",
          ![w].raised = IF local_index_lock = 0 THEN "ValueError" ELSE @]
    /\ UNCHANGED feed_file
    /\ LocalIndexFrame

LocalIndexNext ==
    \E w \in Retrievers :
        \/ StoreRetrievedRecordInFeed(w)
        \/ AcquireLocalIndexLock(w)
        \/ AcquireTimesOut(w)
        \/ GetFeed(w)
        \/ SetIdAddRecord(w)
        \/ MergeRecord(w)
        \/ InvalidMerge(w)
        \/ SaveFeedFile(w)
        \/ SaveFeedFileFails(w)
        \/ ReleaseLocalIndexLock(w)

LocalIndexSpec == LocalIndexInit /\ [][LocalIndexNext]_vars

\* the process is between its acquire and its release
InFeedUpdate(w) ==
    retrievals[w].pc \in {"get_feed", "set_id", "merge", "save", "finally"}

\* the process gave its record a feed id and merged it into the record
\* that is prepared
HasFeedID(w) ==
    /\ retrievals[w].pc \in {"save", "finally", "done"}
    /\ retrievals[w].raised \notin {"NotFeedIdentifiableException",
                                     "InvalidMerge"}

\* the origin that the record of the process is given
FeedOrigin(w) ==
    Link(retrievals[w].local_index_feed.origin_prefix,
         Get(retrievals[w].retrieved_record, "ID"))

\* C35: at most one process at a time is between the acquire and the
\* release of local_index_lock, and two processes whose records have
\* different curation ids never give them the same feed id, hence never
\* the same origin, whether an acquire timed out or a save failed.
C35_AsStated ==
    \A v, w \in Retrievers :
        v # w =>
            /\ ~(InFeedUpdate(v) /\ InFeedUpdate(w))
            /\ (/\ HasFeedID(v)
                /\ HasFeedID(w)
                /\ Get(retrievals[v].retrieved_record, "curation_ID")
                   # Get(retrievals[w].retrieved_record, "curation_ID"))
               => FeedOrigin(v) # FeedOrigin(w)

====
